---- MODULE Spec2Model ----
(***************************************************************************)
(* Model of the palette pipeline of the S1 Color Palette Generator         *)
(* (src/unnamed/part_000, the current App component, with the helper       *)
(* functions above it).                                                    *)
(*                                                                         *)
(* Numbers.  The program computes in IEEE doubles.  Here every fraction    *)
(* (hue, saturation, lightness, Math.random() values) is a fixed-point     *)
(* integer counted in units of 1/SCALE, Lab coordinates and deltaE are     *)
(* counted in units of 1/LABSCALE, and every division rounds down.  A      *)
(* colour is a triple <<r, g, b>>.  NaN is a value of its own: it is what  *)
(* 0/0 produces and it makes every comparison false, as in the program.    *)
(*                                                                         *)
(* Math.random().  A run of the pipeline reads its random numbers from a   *)
(* tape rnd (a non-empty sequence over RandomValues, read cyclically);     *)
(* the k-th call of Math.random() of a run returns Rand(rnd, k).           *)
(***************************************************************************)
EXTENDS Integers, Sequences, FiniteSets, TLC

VARIABLES
    imageSrc,            \* useState imageSrc: NoImage (null) or the index of an image of AppImages
    cfg,                 \* the six extraction parameters the effect depends on
    palette,             \* useState palette
    isLoading,           \* useState isLoading
    loads,               \* image loads started by the effect whose onload/onerror is pending
    nStarted,            \* number of image loads the effect has started (the last one's id)
    lastStored,          \* id of the load whose onload stored the palette (0: none yet)
    nFailed,             \* number of loads that ended in onerror
    fn                   \* scratch record of the function specifications (see below)

vars == <<imageSrc, cfg, palette, isLoading, loads, nStarted, lastStored, nFailed, fn>>

(***************************************************************************)
(* Fixed point                                                             *)
(***************************************************************************)
SCALE == 100 * 100            \* one unit of a fraction is 1/10000
LABSCALE == 10 * 10           \* one unit of a Lab coordinate is 0.01
NaN == 0 - SCALE * SCALE      \* the IEEE NaN; no other number of the model is this low

Max2(a, b) == IF a >= b THEN a ELSE b
Min2(a, b) == IF a <= b THEN a ELSE b
Max3(a, b, c) == Max2(a, Max2(b, c))
Min3(a, b, c) == Min2(a, Min2(b, c))

\* Math.floor where the code has Math.ceil: the variant the length property is tested against
truncDiv(a, b) == a \div b

\* Math.ceil(a / b) and Math.floor(a / b) for integers a >= 0, b > 0
CeilDiv(a, b) == (a + b - 1) \div b
FloorDiv(a, b) == a \div b

\* JavaScript's x % 1: the remainder has the sign of the dividend
JsMod1(x) == IF x = NaN THEN NaN ELSE IF x >= 0 THEN x % SCALE ELSE 0 - ((0 - x) % SCALE)

\* Math.min(1, Math.max(0, x))
Clamp01(x) == IF x = NaN THEN NaN ELSE Min2(SCALE, Max2(0, x))

\* Math.max(lo, Math.min(hi, x))
ClampRange(lo, hi, x) == IF x = NaN THEN NaN ELSE Max2(lo, Min2(hi, x))

\* F of the value of v: v is evaluated once, before F reads it
Apply(F(_), v) == CHOOSE r \in {F(x) : x \in {v}} : TRUE

\* the k-th value (k = 0, 1, ...) Math.random() returns in a run reading tape rnd
Rand(rnd, k) == rnd[(k % Len(rnd)) + 1]

IsNaNColor(c) == c[1] = NaN \/ c[2] = NaN \/ c[3] = NaN

(***************************************************************************)
(* rgbToHsl, part_000 lines 35-64.  Result <<h, s, l>> in units of 1/SCALE.*)
(* With a NaN channel max === min is false, d is NaN and no case of the    *)
(* switch matches, so h, s and l are all NaN.                              *)
(***************************************************************************)
\* lines 48-61: s and h when max > min (d = max - min)
hslChromatic(r, g, b, max, min, d) ==
    << IF max = r THEN ((g - b + (IF g < b THEN 6 * d ELSE 0)) * SCALE) \div (6 * d)
       ELSE IF max = g THEN ((b - r + 2 * d) * SCALE) \div (6 * d)
       ELSE ((r - g + 4 * d) * SCALE) \div (6 * d),
       IF max + min > 255 THEN (d * SCALE) \div (510 - max - min)
       ELSE (d * SCALE) \div (max + min),
       ((max + min) * SCALE) \div 510 >>

\* lines 43-63 given max and min
hslOf(r, g, b, max, min) ==
    IF max = min THEN <<0, 0, ((max + min) * SCALE) \div 510>>
    ELSE hslChromatic(r, g, b, max, min, max - min)

rgbToHsl(c) ==
    IF IsNaNColor(c) THEN <<NaN, NaN, NaN>>
    ELSE hslOf(c[1], c[2], c[3], Max3(c[1], c[2], c[3]), Min3(c[1], c[2], c[3]))

(***************************************************************************)
(* hue2rgb, part_000 lines 71-78.  The argument t3 is 3*t (the callers     *)
(* pass h + 1/3, h and h - 1/3, so 3*t is 3h + 1, 3h, 3h - 1 exactly).     *)
(***************************************************************************)
\* lines 72-73
wrapT3(t3) ==
    IF t3 < 0 THEN t3 + 3 * SCALE
    ELSE IF t3 > 3 * SCALE THEN t3 - 3 * SCALE
    ELSE t3

\* lines 74-77
hueRamp(p, q, t3) ==
    IF 2 * t3 < SCALE THEN p + ((q - p) * 2 * t3) \div SCALE
    ELSE IF 2 * t3 < 3 * SCALE THEN q
    ELSE IF t3 < 2 * SCALE THEN p + ((q - p) * 2 * (2 * SCALE - t3)) \div SCALE
    ELSE p

hue2rgb(p, q, t3) == hueRamp(p, q, wrapT3(t3))

\* Math.round(x * 255) for a fraction x >= 0
Round255(x) == (x * 255 + SCALE \div 2) \div SCALE

\* lines 80-85 given q
rgbFromQ(h, l, q) ==
    <<Round255(hue2rgb(2 * l - q, q, 3 * h + SCALE)),
      Round255(hue2rgb(2 * l - q, q, 3 * h)),
      Round255(hue2rgb(2 * l - q, q, 3 * h - SCALE))>>

\* q = l + s - l * s on both sides of l = 0.5: the variant the round trip is tested
\* against
hslToRgbOneBranch(h, s, l) ==
    IF l = NaN \/ s = NaN THEN <<NaN, NaN, NaN>>
    ELSE IF s = 0 THEN <<Round255(l), Round255(l), Round255(l)>>
    ELSE IF h = NaN THEN <<NaN, NaN, NaN>>
    ELSE rgbFromQ(h, l, l + s - (l * s) \div SCALE)

(***************************************************************************)
(* hslToRgb, part_000 lines 66-86.  A NaN lightness, saturation or hue     *)
(* makes r, g and b NaN on every path that reads it.                       *)
(***************************************************************************)
hslToRgb(h, s, l) ==
    IF l = NaN \/ s = NaN THEN <<NaN, NaN, NaN>>
    ELSE IF s = 0 THEN <<Round255(l), Round255(l), Round255(l)>>
    ELSE IF h = NaN THEN <<NaN, NaN, NaN>>
    ELSE rgbFromQ(h, l, IF 2 * l < SCALE THEN (l * (SCALE + s)) \div SCALE
                        ELSE l + s - (l * s) \div SCALE)

(***************************************************************************)
(* rgbToLab, part_000 lines 257-287.  The two power laws are computed by   *)
(* bisection on fixed-point numbers:                                       *)
(*   gamma:  x > 0.04045 ? ((x + 0.055) / 1.055) ^ 2.4 : x / 12.92,        *)
(*           times 100; with x = c/255 the test is c >= 11, and            *)
(*           (x + 0.055)/1.055 = (40c + 561)/10761;                        *)
(*   labF:   t > 0.008856 ? t ^ (1/3) : 7.787 t + 16/116.                  *)
(***************************************************************************)
\* w^5 for a fraction w, each product cut back to units of 1/SCALE
Pow5(w) == ((((((((w * w) \div SCALE) * w) \div SCALE) * w) \div SCALE) * w) \div SCALE)

\* the largest w in lo..hi with Pow5(w) <= x: x ^ (1/5)
RECURSIVE Root5(_, _, _)
Root5(x, lo, hi) ==
    IF lo >= hi THEN lo
    ELSE IF Pow5((lo + hi + 1) \div 2) <= x THEN Root5(x, (lo + hi + 1) \div 2, hi)
    ELSE Root5(x, lo, (lo + hi + 1) \div 2 - 1)

\* the largest y in lo..hi with y^3 <= t (y, t fractions): t ^ (1/3)
Cube1000(y) == ((y * y) \div 1000) * y
RECURSIVE Root3(_, _, _)
Root3(t, lo, hi) ==
    IF lo >= hi THEN lo
    ELSE IF Cube1000((lo + hi + 1) \div 2) <= t * 100000 THEN Root3(t, (lo + hi + 1) \div 2, hi)
    ELSE Root3(t, lo, (lo + hi + 1) \div 2 - 1)

\* u ^ 2.4 = u^2 * u^0.4 for a fraction u, in units of 1/(10 SCALE)
Pow24(u) == (((u * u) \div 100) * (Root5((u * u) \div SCALE, 0, SCALE) \div 10)) \div SCALE

\* lines 258-268 for one channel c in 0..255: the linear value times 100, in units of 0.001
GammaOf(c) ==
    IF c >= 11 THEN Pow24(((40 * c + 561) * SCALE) \div 10761)
    ELSE (c * 1000 * SCALE) \div (255 * 1292)
gamma == [c \in 0..255 |-> GammaOf(c)]

\* lines 278-280 for one normalised coordinate t (units of 1/SCALE)
MaxLabArg == SCALE + SCALE \div 100        \* X/Xn, Y/Yn, Z/Zn never exceed 1.01
LabFOf(t) ==
    IF t * 100 > 8856 THEN Root3(t, 0, MaxLabArg)
    ELSE (7787 * t) \div 1000 + (16 * SCALE) \div 116
labF == [t \in 0..MaxLabArg |-> LabFOf(t)]

\* lines 282-286: <<L, a, b>> in units of 1/LABSCALE
labOf(fX, fY, fZ) ==
    <<(116 * fY - 16 * SCALE) \div LABSCALE,
      (500 * (fX - fY)) \div LABSCALE,
      (200 * (fY - fZ)) \div LABSCALE>>

\* lines 270-280 for the linear values x, y, z
labOfLinear(x, y, z) ==
    labOf(labF[(((x * 4124 + y * 3576 + z * 1805) \div SCALE) * SCALE) \div 95047],
          labF[(((x * 2126 + y * 7152 + z * 722) \div SCALE) * SCALE) \div 100000],
          labF[(((x * 193 + y * 1192 + z * 9505) \div SCALE) * SCALE) \div 108883])

rgbToLab(c) == labOfLinear(gamma[c[1]], gamma[c[2]], gamma[c[3]])

\* Math.sqrt: the largest r in lo..hi with r * r <= n
RECURSIVE Sqrt(_, _, _)
Sqrt(n, lo, hi) ==
    IF lo >= hi THEN lo
    ELSE Apply(LAMBDA mid : IF mid * mid <= n THEN Sqrt(n, mid, hi) ELSE Sqrt(n, lo, mid - 1),
               (lo + hi + 1) \div 2)

\* Math.pow dropped from the a term: the variant the symmetry is tested against
\* (Math.sqrt of a negative sum is NaN)
labDistanceUnsquared(lab1, lab2) ==
    IF (lab2[1] - lab1[1]) * (lab2[1] - lab1[1]) + (lab2[2] - lab1[2])
       + (lab2[3] - lab1[3]) * (lab2[3] - lab1[3]) < 0
    THEN NaN
    ELSE Sqrt((lab2[1] - lab1[1]) * (lab2[1] - lab1[1]) + (lab2[2] - lab1[2])
              + (lab2[3] - lab1[3]) * (lab2[3] - lab1[3]), 0, 400 * LABSCALE)
\* lines 292-294
labDistance(lab1, lab2) ==
    Apply(LAMBDA n : Sqrt(n, 0, 400 * LABSCALE),
          (lab2[1] - lab1[1]) * (lab2[1] - lab1[1])
          + (lab2[2] - lab1[2]) * (lab2[2] - lab1[2])
          + (lab2[3] - lab1[3]) * (lab2[3] - lab1[3]))

(***************************************************************************)
(* deltaE, part_000 lines 289-295: CIE76 distance, in units of 1/LABSCALE. *)
(***************************************************************************)
deltaE(color1, color2) ==
    Apply(LAMBDA lab1 : Apply(LAMBDA lab2 : labDistance(lab1, lab2), rgbToLab(color2)),
          rgbToLab(color1))

(***************************************************************************)
(* filterSimilarColors, part_000 lines 297-322.  threshold is the slider's *)
(* integer value; difference < threshold is compared in units of           *)
(* 1/LABSCALE.  FilterFrom is the loop from index i with the colours kept  *)
(* so far.                                                                 *)
(***************************************************************************)
\* difference <= threshold where the code has <: the variant the filter rule is tested against
isSimilarOrEqual(color, filtered, threshold) ==
    \E j \in 1..Len(filtered) : deltaE(color, filtered[j]) <= threshold * LABSCALE

\* a test that also takes an equal colour for similar: the variant threshold 0 is tested
\* against
isSimilarOrSame(color, filtered, threshold) ==
    \E j \in 1..Len(filtered) :
        filtered[j] = color \/ deltaE(color, filtered[j]) < threshold * LABSCALE
\* lines 306-312: some colour kept so far is at difference < threshold
isSimilar(color, filtered, threshold) ==
    \E j \in 1..Len(filtered) : deltaE(color, filtered[j]) < threshold * LABSCALE

RECURSIVE FilterFrom(_, _, _, _)
FilterFrom(colors, i, filtered, threshold) ==
    IF i > Len(colors) THEN filtered
    ELSE IF isSimilar(colors[i], filtered, threshold)
         THEN FilterFrom(colors, i + 1, filtered, threshold)
         ELSE FilterFrom(colors, i + 1, Append(filtered, colors[i]), threshold)

\* the loop from index 1 over an empty filtered list (the first colour is never kept):
\* the variant idempotence is tested against
filterSkippingFirst(colors, threshold) ==
    IF Len(colors) <= 1 THEN colors
    ELSE FilterFrom(colors, 2, <<>>, threshold)

\* lines 297-322
filterSimilarColors(colors, threshold) ==
    IF Len(colors) <= 1 THEN colors
    ELSE FilterFrom(colors, 2, <<colors[1]>>, threshold)

(***************************************************************************)
(* getMedianColor, part_000 lines 324-333: each channel sorted ascending,  *)
(* the element at index floor(n / 2).                                      *)
(***************************************************************************)
\* xs with v inserted before the first element greater than v (xs ascending)
RECURSIVE InsertAsc(_, _)
InsertAsc(xs, v) ==
    IF xs = <<>> THEN <<v>>
    ELSE IF v < Head(xs) THEN <<v>> \o xs
    ELSE <<Head(xs)>> \o InsertAsc(Tail(xs), v)

RECURSIVE SortAsc(_)
SortAsc(xs) ==
    IF xs = <<>> THEN <<>>
    ELSE Apply(LAMBDA sorted : InsertAsc(sorted, Head(xs)), SortAsc(Tail(xs)))

Channel(pixels, ch) == [i \in 1..Len(pixels) |-> pixels[i][ch]]

\* the mean of the values, rounded down: the variant the origin of a centroid's channels
\* is tested against
meanOf(values) ==
    LET sum[i \in 0..Len(values)] == IF i = 0 THEN 0 ELSE sum[i - 1] + values[i]
    IN  sum[Len(values)] \div Len(values)
\* sorted[Math.floor(sorted.length / 2)] for one channel, lines 327-331
medianOf(values) == SortAsc(values)[Len(values) \div 2 + 1]

getMedianColor(pixels) ==
    IF Len(pixels) = 0 THEN <<0, 0, 0>>
    ELSE <<medianOf(Channel(pixels, 1)), medianOf(Channel(pixels, 2)),
           medianOf(Channel(pixels, 3))>>

(***************************************************************************)
(* The sort of generateColorVariations and generateAnalogousPalette,       *)
(* part_000 lines 451-455 and 508-512: Array.prototype.sort (stable) with  *)
(* the comparator l2 - l1, descending HSL lightness.                       *)
(***************************************************************************)
Lightness(c) == rgbToHsl(c)[3]

\* cs (descending) with c inserted after every element at least as light
RECURSIVE InsertByLightness(_, _)
InsertByLightness(cs, c) ==
    IF cs = <<>> THEN <<c>>
    ELSE IF Lightness(Head(cs)) >= Lightness(c) THEN <<Head(cs)>> \o InsertByLightness(Tail(cs), c)
    ELSE <<c>> \o cs

RECURSIVE SortFrom(_, _, _)
SortFrom(cs, i, sorted) ==
    IF i > Len(cs) THEN sorted ELSE SortFrom(cs, i + 1, InsertByLightness(sorted, cs[i]))

sortByLightnessDesc(cs) == IF Len(cs) <= 1 THEN cs ELSE SortFrom(cs, 1, <<>>)

(***************************************************************************)
(* The expanders, part_000 lines 439-526.  t = i / (numVariations - 1) is  *)
(* 0/0 = NaN when numVariations is 1.  rnd is the tape and pos the number  *)
(* of Math.random() calls made before the call.                            *)
(***************************************************************************)
\* i / (numVariations - 1), lines 444, 502, 520
stepT(i, numVariations) ==
    IF numVariations = 1 THEN NaN ELSE (i * SCALE) \div (numVariations - 1)

\* 0.15 + 0.7 * t, lines 445, 504, 521
rampL(t) == IF t = NaN THEN NaN ELSE 1500 + (7000 * t) \div SCALE

\* (baseH + (Math.random() - 0.5) * 0.05) % 1, line 446
jitteredHue(baseH, r1) == JsMod1(baseH + ((r1 - SCALE \div 2) * 500) \div SCALE)

\* (h + 0.5) % 1.0, (h + 1 / 3) % 1.0 and (h + 2 / 3) % 1.0, lines 460, 480, 481
rotatedHue(h, offset) == JsMod1(h + offset)

\* lines 443-449, the i-th colour pushed (i = 0 .. numVariations - 1)
variationOf(hsl, t, r1, r2) ==
    hslToRgb(jitteredHue(hsl[1], r1),
             Clamp01(hsl[2] + ((r2 - SCALE \div 2) * 1000) \div SCALE),
             rampL(t))

variationAt(baseColor, numVariations, rnd, pos, i) ==
    variationOf(rgbToHsl(baseColor), stepT(i, numVariations),
                Rand(rnd, pos + 2 * i), Rand(rnd, pos + 2 * i + 1))

generateColorVariations(baseColor, numVariations, rnd, pos) ==
    sortByLightnessDesc([i \in 1..numVariations |->
                            variationAt(baseColor, numVariations, rnd, pos, i - 1)])

\* Math.random() calls of one generateColorVariations call
variationDraws(numVariations) == 2 * numVariations

\* lines 459-471 given the HSL of the base and the two group sizes
complementaryOf(baseColor, hsl, nBase, nComp, rnd, pos) ==
    generateColorVariations(baseColor, nBase, rnd, pos)
    \o generateColorVariations(hslToRgb(rotatedHue(hsl[1], SCALE \div 2), hsl[2], hsl[3]),
                               nComp, rnd, pos + variationDraws(nBase))

generateComplementaryPalette(baseColor, numVariations, rnd, pos) ==
    complementaryOf(baseColor, rgbToHsl(baseColor),
                    CeilDiv(numVariations, 2), FloorDiv(numVariations, 2), rnd, pos)

\* lines 487-493 given the HSL of the base and the three group sizes
triadicOf(baseColor, hsl, baseCount, triad1Count, triad2Count, rnd, pos) ==
    generateColorVariations(baseColor, baseCount, rnd, pos)
    \o generateColorVariations(hslToRgb(rotatedHue(hsl[1], SCALE \div 3), hsl[2], hsl[3]),
                               triad1Count, rnd, pos + variationDraws(baseCount))
    \o generateColorVariations(hslToRgb(rotatedHue(hsl[1], (2 * SCALE) \div 3), hsl[2], hsl[3]),
                               triad2Count, rnd,
                               pos + variationDraws(baseCount) + variationDraws(triad1Count))

\* lines 483-485 given baseCount
triadicSplit(baseColor, numVariations, baseCount, rnd, pos) ==
    triadicOf(baseColor, rgbToHsl(baseColor), baseCount,
              FloorDiv(numVariations - baseCount, 2),
              numVariations - baseCount - FloorDiv(numVariations - baseCount, 2), rnd, pos)

generateTriadicPalette(baseColor, numVariations, rnd, pos) ==
    triadicSplit(baseColor, numVariations, CeilDiv(numVariations, 3), rnd, pos)

\* (h + analogousRange * (t - 0.5)) % 1, line 503; analogousRange = 0.08
sweptHue(h, t) == IF t = NaN THEN NaN ELSE JsMod1(h + (800 * (t - SCALE \div 2)) \div SCALE)

\* lines 502-506 for the step t
analogousOf(hsl, t) == hslToRgb(sweptHue(hsl[1], t), hsl[2], rampL(t))

\* lines 501-506, the i-th colour pushed
analogousAt(baseColor, numVariations, i) ==
    analogousOf(rgbToHsl(baseColor), stepT(i, numVariations))

generateAnalogousPalette(baseColor, numVariations) ==
    sortByLightnessDesc([i \in 1..numVariations |-> analogousAt(baseColor, numVariations, i - 1)])

\* lines 519-523 given the HSL of the base
monochromaticOf(hsl, numVariations) ==
    [i \in 1..numVariations |-> hslToRgb(hsl[1], hsl[2], rampL(stepT(i - 1, numVariations)))]

generateMonochromaticPalette(baseColor, numVariations) ==
    monochromaticOf(rgbToHsl(baseColor), numVariations)

\* the switch on paletteType, lines 636-657 and 667-697
expand(paletteType, color, n, rnd, pos) ==
    CASE paletteType = "complementary" -> generateComplementaryPalette(color, n, rnd, pos)
      [] paletteType = "triadic" -> generateTriadicPalette(color, n, rnd, pos)
      [] paletteType = "analogous" -> generateAnalogousPalette(color, n)
      [] paletteType = "monochromatic" -> generateMonochromaticPalette(color, n)
      [] OTHER -> generateColorVariations(color, n, rnd, pos)

\* Math.random() calls of one expand call
expandDraws(paletteType, n) ==
    IF paletteType \in {"analogous", "monochromatic"} THEN 0 ELSE variationDraws(n)


(***************************************************************************)
(* harmonizeColors, part_000 lines 171-255, and the harmonizeColors of     *)
(* src/App.jsx, lines 62-123, which has the first five profiles and falls  *)
(* back to {}.  A field a profile object lacks is undefined: a multiplier  *)
(* of 0 here (falsy either way) and ranged = FALSE.                        *)
(***************************************************************************)
models ==
    [ m70s   |-> [l_mult |-> 8500, s_mult |-> 7000, l_shift |-> 1000, s_shift |-> 0,
                  ranged |-> TRUE, l_range |-> <<3000, 7000>>, s_range |-> <<4000, 8000>>],
      m80s   |-> [l_mult |-> 12000, s_mult |-> 13000, l_shift |-> 0, s_shift |-> 1000,
                  ranged |-> TRUE, l_range |-> <<4000, 9000>>, s_range |-> <<6000, 10000>>],
      vibrant |-> [l_mult |-> 10000, s_mult |-> 14000, l_shift |-> 0, s_shift |-> 2000,
                  ranged |-> TRUE, l_range |-> <<3000, 8000>>, s_range |-> <<7000, 10000>>],
      neon   |-> [l_mult |-> 13000, s_mult |-> 15000, l_shift |-> 1000, s_shift |-> 3000,
                  ranged |-> TRUE, l_range |-> <<6000, 10000>>, s_range |-> <<8000, 10000>>],
      pastel |-> [l_mult |-> 12000, s_mult |-> 5000, l_shift |-> 2000, s_shift |-> 0,
                  ranged |-> TRUE, l_range |-> <<7000, 9500>>, s_range |-> <<2000, 6000>>],
      earthy |-> [l_mult |-> 9000, s_mult |-> 7000, l_shift |-> 0, s_shift |-> 0 - 1000,
                  ranged |-> TRUE, l_range |-> <<2000, 6000>>, s_range |-> <<3000, 7000>>],
      jewel  |-> [l_mult |-> 8000, s_mult |-> 12000, l_shift |-> 0, s_shift |-> 1000,
                  ranged |-> TRUE, l_range |-> <<3000, 7000>>, s_range |-> <<8000, 10000>>],
      none   |-> [l_mult |-> 10000, s_mult |-> 10000, l_shift |-> 0, s_shift |-> 0,
                  ranged |-> FALSE, l_range |-> <<0, 0>>, s_range |-> <<0, 0>>] ]

\* the key of models for a profile name ("70s" and "80s" are no TLA+ field names)
modelKey(model) == IF model = "70s" THEN "m70s" ELSE IF model = "80s" THEN "m80s" ELSE model

\* an object without any of the fields harmonizeColors reads
noParams ==
    [l_mult |-> 0, s_mult |-> 0, l_shift |-> 0, s_shift |-> 0,
     ranged |-> FALSE, l_range |-> <<0, 0>>, s_range |-> <<0, 0>>]

\* names models[model] finds on Object.prototype: truthy values without those fields
inheritedKeys == {"constructor", "toString", "valueOf", "hasOwnProperty", "__proto__"}

\* an unknown name falls back to the first profile: the variant the fallback is tested
\* against
paramsOfFirst(model) ==
    IF modelKey(model) \in DOMAIN models THEN models[modelKey(model)]
    ELSE IF model \in inheritedKeys THEN noParams
    ELSE models["m70s"]

\* models[model] || models.none, line 237
paramsOf(model) ==
    IF modelKey(model) \in DOMAIN models THEN models[modelKey(model)]
    ELSE IF model \in inheritedKeys THEN noParams
    ELSE models["none"]

\* the profiles src/App.jsx defines, lines 63-104 (with the values they have in models)
modelsJsx == {"m70s", "m80s", "vibrant", "neon", "pastel"}

\* models[model] || {}, src/App.jsx line 106
paramsOfJsx(model) ==
    IF modelKey(model) \in modelsJsx THEN models[modelKey(model)] ELSE noParams

\* x * mult + shift, lines 242-243
multShift(x, mult, shift) == IF x = NaN THEN NaN ELSE (x * mult) \div SCALE + shift

\* if (params.l_mult) l = l * params.l_mult + params.l_shift, lines 242-243
multShiftIf(x, mult, shift) == IF mult # 0 THEN multShift(x, mult, shift) ELSE x

\* lines 245-246 and 248-249: the clamp to a range the profile has
rangeClamp(ranged, range, x) == IF ranged THEN ClampRange(range[1], range[2], x) ELSE x

\* the range clamp before the multiply-and-shift: the order the clamps are tested against
harmonizedSLClampFirst(hsl, params) ==
    << Clamp01(multShiftIf(rangeClamp(params.ranged, params.s_range, hsl[2]),
                           params.s_mult, params.s_shift)),
       Clamp01(multShiftIf(rangeClamp(params.ranged, params.l_range, hsl[3]),
                           params.l_mult, params.l_shift)) >>

\* lines 242-250: s and l after multiply-and-shift, the range clamp and the clamp to [0,1]
harmonizedSL(hsl, params) ==
    << Clamp01(rangeClamp(params.ranged, params.s_range,
                          multShiftIf(hsl[2], params.s_mult, params.s_shift))),
       Clamp01(rangeClamp(params.ranged, params.l_range,
                          multShiftIf(hsl[3], params.l_mult, params.l_shift))) >>

\* return hslToRgb(h, s, l), line 252
handToHslToRgb(h, sl) == hslToRgb(h, sl[1], sl[2])

\* lines 242-252 given the HSL of the colour
harmonizeHsl(hsl, params) == handToHslToRgb(hsl[1], harmonizedSL(hsl, params))

\* lines 240-253 for one colour
harmonizeColor(color, params) == harmonizeHsl(rgbToHsl(color), params)

harmonizeColors(colors, model) ==
    [i \in 1..Len(colors) |-> harmonizeColor(colors[i], paramsOf(model))]

\* harmonizeColors of src/App.jsx, lines 62-123: the same body after another lookup
harmonizeColorsJsx(colors, model) ==
    [i \in 1..Len(colors) |-> harmonizeColor(colors[i], paramsOfJsx(model))]

(***************************************************************************)
(* kMeansClustering, part_000 lines 335-423, in the steps the step-wise    *)
(* specification and the function below share.  A random number r is a     *)
(* fraction in [0, 1); Math.floor(r * n) is (r * n) \div SCALE.            *)
(***************************************************************************)
\* pixels[Math.floor(Math.random() * pixels.length)], lines 342, 347, 430 (1-based here)
randomIndex(r, n) == (r * n) \div SCALE + 1

\* lines 338-344
kmSample(pixels, sampleSize, rnd, pos) ==
    IF Len(pixels) > sampleSize
    THEN [i \in 1..sampleSize |-> pixels[randomIndex(Rand(rnd, pos + i - 1), Len(pixels))]]
    ELSE pixels

kmSampleDraws(pixels, sampleSize) == IF Len(pixels) > sampleSize THEN sampleSize ELSE 0

\* the distances from a pixel to every centroid, in order
distancesTo(pixel, centroids) ==
    [i \in 1..Len(centroids) |-> deltaE(pixel, centroids[i])]

\* the first index of a least element: the loops update on distance < minDistance only
firstLeast(ds) ==
    CHOOSE i \in 1..Len(ds) :
        /\ \A j \in 1..Len(ds) : ds[i] <= ds[j]
        /\ \A j \in 1..(i - 1) : ds[j] > ds[i]

leastOf(ds) == ds[firstLeast(ds)]

\* lines 354-364: a pixel's distance to its nearest centroid
minDistance(pixel, centroids) == Apply(leastOf, distancesTo(pixel, centroids))

RECURSIVE SumTo(_, _)
SumTo(distances, j) == IF j = 0 THEN 0 ELSE SumTo(distances, j - 1) + distances[j]

\* the least element of a set of indices, 0 for the empty set
firstOrZero(hit) == IF hit = {} THEN 0 ELSE CHOOSE j \in hit : \A i \in hit : j <= i

\* cumulativeDistance > randomValue where the code has >=: the variant the count of
\* centroids is tested against
rouletteHitStrict(distances, scaledRandomValue) ==
    firstOrZero({j \in 1..Len(distances) : SumTo(distances, j) * SCALE > scaledRandomValue})

\* lines 369-375: the first j with cumulativeDistance >= randomValue (both times SCALE)
rouletteHit(distances, scaledRandomValue) ==
    firstOrZero({j \in 1..Len(distances) : SumTo(distances, j) * SCALE >= scaledRandomValue})

\* lines 366-375: the index the roulette picks (0: the loop ends without a push);
\* randomValue = Math.random() * totalDistance
roulettePick(distances, r) ==
    Apply(LAMBDA randomValue : rouletteHit(distances, randomValue),
          r * SumTo(distances, Len(distances)))

\* line 372: centroids.push(sampledPixels[j]) when the roulette picked j
pushPicked(sampledPixels, centroids, j) ==
    IF j = 0 THEN centroids ELSE Append(centroids, sampledPixels[j])

\* one round of the seeding loop, lines 350-376
kmSeedRound(sampledPixels, centroids, r) ==
    Apply(LAMBDA j : pushPicked(sampledPixels, centroids, j),
          Apply(LAMBDA distances : roulettePick(distances, r),
                [j \in 1..Len(sampledPixels) |-> minDistance(sampledPixels[j], centroids)]))

\* lines 391-404: the index of the first nearest centroid
clusterIndex(pixel, centroids) == Apply(firstLeast, distancesTo(pixel, centroids))

RECURSIVE SelectIndexed(_, _, _, _)
SelectIndexed(pixels, index, i, n) ==
    IF n > Len(pixels) THEN <<>>
    ELSE IF index[n] = i THEN <<pixels[n]>> \o SelectIndexed(pixels, index, i, n + 1)
    ELSE SelectIndexed(pixels, index, i, n + 1)

\* clusters[i], lines 389-404
clusterOf(sampledPixels, centroids, i) ==
    Apply(LAMBDA index : SelectIndexed(sampledPixels, index, i, 1),
          [n \in 1..Len(sampledPixels) |-> clusterIndex(sampledPixels[n], centroids)])

\* a tolerance of 50 in place of 1: the variant the tolerance is tested against
replaceIfMovedFar(newCentroid, oldCentroid) ==
    IF deltaE(newCentroid, oldCentroid) > 50 * LABSCALE THEN newCentroid ELSE oldCentroid
\* lines 411-414: the median replaces the centroid when it moved by more than 1
replaceIfMoved(newCentroid, oldCentroid) ==
    IF deltaE(newCentroid, oldCentroid) > 1 * LABSCALE THEN newCentroid ELSE oldCentroid

\* lines 407-415 without the continue of line 407: the variant the skip of an empty
\* cluster is tested against
movedCentroidNoSkip(cluster, oldCentroid) ==
    Apply(LAMBDA newCentroid : replaceIfMoved(newCentroid, oldCentroid),
          getMedianColor(cluster))
\* lines 407-415 for one cluster and its centroid
movedCentroid(cluster, oldCentroid) ==
    IF Len(cluster) = 0 THEN oldCentroid
    ELSE Apply(LAMBDA newCentroid : replaceIfMoved(newCentroid, oldCentroid),
               getMedianColor(cluster))

\* lines 406-417 for centroid i
newCentroidAt(sampledPixels, centroids, i) ==
    Apply(LAMBDA cluster : movedCentroid(cluster, centroids[i]),
          clusterOf(sampledPixels, centroids, i))

\* one round of the refinement loop, lines 389-417: the centroids after it
kmRound(sampledPixels, centroids, k) ==
    [i \in 1..Len(centroids) |->
        IF i <= k THEN newCentroidAt(sampledPixels, centroids, i) ELSE centroids[i]]

\* the seeding loop, lines 350-376; round i reads the Math.random() call number p1 + i
RECURSIVE kmSeed(_, _, _, _, _, _)
kmSeed(sampledPixels, centroids, i, k, rnd, p1) ==
    IF i >= k THEN centroids
    ELSE kmSeed(sampledPixels, kmSeedRound(sampledPixels, centroids, Rand(rnd, p1 + i)),
                i + 1, k, rnd, p1)

\* the loop of lines 381-420; deadline is the round whose check of line 382 first
\* finds more than timeoutMs elapsed (maxIterations or more: never)
RECURSIVE kmIterate(_, _, _, _, _, _)

\* lines 386-419 of one round, given the centroids the round computes
kmAdvance(sampledPixels, centroids, next, k, iter, maxIterations, deadline) ==
    IF next = centroids THEN centroids
    ELSE kmIterate(sampledPixels, next, k, iter + 1, maxIterations, deadline)

kmIterate(sampledPixels, centroids, k, iter, maxIterations, deadline) ==
    IF iter >= maxIterations \/ iter = deadline THEN centroids
    ELSE kmAdvance(sampledPixels, centroids, kmRound(sampledPixels, centroids, k),
                   k, iter, maxIterations, deadline)

\* lines 346-422 given the sample; p1 is the number of Math.random() calls before line 347
kmFromSample(sampledPixels, k, maxIterations, rnd, p1, deadline) ==
    kmIterate(sampledPixels,
              kmSeed(sampledPixels,
                     <<sampledPixels[randomIndex(Rand(rnd, p1), Len(sampledPixels))]>>,
                     1, k, rnd, p1),
              k, 0, maxIterations, deadline)

kMeansClustering(pixels, k, maxIterations, sampleSize, rnd, pos, deadline) ==
    IF Len(pixels) = 0 \/ k = 0 THEN <<>>
    ELSE kmFromSample(kmSample(pixels, sampleSize, rnd, pos), k, maxIterations, rnd,
                      pos + kmSampleDraws(pixels, sampleSize), deadline)

maxIterations == 10
sampleSize == 1000

\* pixels[...] || [0, 0, 0], lines 429-431: an index outside the buffer reads undefined
pixelOrBlack(pixels, i) == IF i \in 1..Len(pixels) THEN pixels[i] ELSE <<0, 0, 0>>

\* the padding loop run with i <= count: the variant the padding property is tested against
getDominantColorsOneMore(pixels, count, rnd, pos, deadline) ==
    IF Len(pixels) < count
    THEN [i \in 1..(count + 1) |->
            pixelOrBlack(pixels, randomIndex(Rand(rnd, pos + i - 1), Len(pixels)))]
    ELSE kMeansClustering(pixels, count, maxIterations, sampleSize, rnd, pos, deadline)

(***************************************************************************)
(* getDominantColors, part_000 lines 425-437.                              *)
(***************************************************************************)
getDominantColors(pixels, count, rnd, pos, deadline) ==
    IF Len(pixels) < count
    THEN [i \in 1..count |-> pixelOrBlack(pixels, randomIndex(Rand(rnd, pos + i - 1), Len(pixels)))]
    ELSE kMeansClustering(pixels, count, maxIterations, sampleSize, rnd, pos, deadline)

getDominantDraws(pixels, count) ==
    IF Len(pixels) < count THEN count
    ELSE IF Len(pixels) = 0 \/ count = 0 THEN 0
    ELSE kmSampleDraws(pixels, sampleSize) + count


(***************************************************************************)
(* The palette effect's onload, part_000 lines 595-723, from allPixels on  *)
(* (decoding and downsampling the image are the browser's).                *)
(***************************************************************************)
\* categories, lines 560-570, in categoryOrder (lines 618-625)
categoryOrder == <<"red", "orange", "yellow", "green", "blue", "purple">>
categories ==
    [ red    |-> <<<<0, 833>>, <<9167, 10000>>>>,
      orange |-> <<<<833, 1667>>>>,
      yellow |-> <<<<1667, 2500>>>>,
      green  |-> <<<<2500, 5000>>>>,
      blue   |-> <<<<5000, 7500>>>>,
      purple |-> <<<<7500, 9167>>>> ]

\* the test with low excluded, h > low && h < high: the variant the partition is tested
\* against
hueInCategoryOpen(h, cat) ==
    \E i \in 1..Len(categories[cat]) : h > categories[cat][i][1] /\ h < categories[cat][i][2]
\* rangePairs.some(([low, high]) => h >= low && h < high), line 630
hueInCategory(h, cat) ==
    \E i \in 1..Len(categories[cat]) : h >= categories[cat][i][1] /\ h < categories[cat][i][2]

\* a filter that passes over pixels without saturation: the variant the place of the
\* achromatic pixels is tested against
inCategoryChromatic(p, cat) == rgbToHsl(p)[2] # 0 /\ hueInCategory(rgbToHsl(p)[1], cat)
\* lines 629-630 for one pixel
inCategory(p, cat) == hueInCategory(rgbToHsl(p)[1], cat)

RECURSIVE SelectCategory(_, _, _)
SelectCategory(pixels, cat, n) ==
    IF n > Len(pixels) THEN <<>>
    ELSE IF inCategory(pixels[n], cat) THEN <<pixels[n]>> \o SelectCategory(pixels, cat, n + 1)
    ELSE SelectCategory(pixels, cat, n + 1)

\* allPixels.filter(...), lines 628-631
catPixels(allPixels, cat) == SelectCategory(allPixels, cat, 1)

\* lines 633-634: a category with pixels contributes its median colour
medianIfAny(catPixelList) ==
    IF Len(catPixelList) > 0 THEN <<getMedianColor(catPixelList)>> ELSE <<>>

\* the seeds of the categorical branch: the median of every non-empty category, in order
RECURSIVE categoricalSeedsFrom(_, _)
categoricalSeedsFrom(allPixels, ci) ==
    IF ci > Len(categoryOrder) THEN <<>>
    ELSE medianIfAny(catPixels(allPixels, categoryOrder[ci]))
         \o categoricalSeedsFrom(allPixels, ci + 1)

RECURSIVE Reverse(_)
Reverse(xs) == IF xs = <<>> THEN <<>> ELSE Reverse(Tail(xs)) \o <<Head(xs)>>

\* seeds collected with unshift instead of push: the variant the category order is
\* tested against
categoricalSeedsNewestFirst(allPixels) == Reverse(categoricalSeedsFrom(allPixels, 1))
categoricalSeeds(allPixels) == categoricalSeedsFrom(allPixels, 1)

\* acc + p[ch] over the pixels, src/App.jsx lines 360-363, for one channel
RECURSIVE SumOf(_)
SumOf(values) == IF values = <<>> THEN 0 ELSE Head(values) + SumOf(Tail(values))

\* Math.round(sum[ch] / pixels.length), src/App.jsx lines 365-367: a half rounds up
roundedMean(values) == (2 * SumOf(values) + Len(values)) \div (2 * Len(values))

\* getDominantColor of src/App.jsx, lines 358-369
getDominantColor(pixels) ==
    IF Len(pixels) = 0 THEN <<0, 0, 0>>
    ELSE <<roundedMean(Channel(pixels, 1)), roundedMean(Channel(pixels, 2)),
           roundedMean(Channel(pixels, 3))>>

\* src/App.jsx lines 282-283: a category with pixels contributes getDominantColor of them
dominantIfAny(catPixelList) ==
    IF Len(catPixelList) > 0 THEN <<getDominantColor(catPixelList)>> ELSE <<>>

\* the seeds of the categorical branch of src/App.jsx, lines 268-287
RECURSIVE categoricalSeedsFromJsx(_, _)
categoricalSeedsFromJsx(allPixels, ci) ==
    IF ci > Len(categoryOrder) THEN <<>>
    ELSE dominantIfAny(catPixels(allPixels, categoryOrder[ci]))
         \o categoricalSeedsFromJsx(allPixels, ci + 1)

categoricalSeedsJsx(allPixels) == categoricalSeedsFromJsx(allPixels, 1)
\* the seeds of either branch, lines 626-634 and 663
seedsOf(allPixels, c, rnd, deadline) ==
    IF c.extractionMethod = "categorical" THEN categoricalSeeds(allPixels)
    ELSE getDominantColors(allPixels, c.dominantColorCount, rnd, 0, deadline)

\* the size of the group asked for each seed, lines 640-656 and 671-695
groupSize(c) ==
    IF c.extractionMethod = "categorical" THEN c.colorsPerHue
    ELSE FloorDiv(c.colorsPerHue, c.dominantColorCount)

\* newPalette.push(...variations) for the seeds from index i on; pos counts Math.random() calls
RECURSIVE expandFrom(_, _, _, _, _)
expandFrom(seeds, i, c, rnd, pos) ==
    IF i > Len(seeds) THEN <<>>
    ELSE expand(c.paletteType, seeds[i], groupSize(c), rnd, pos)
         \o expandFrom(seeds, i + 1, c, rnd, pos + expandDraws(c.paletteType, groupSize(c)))

\* Math.random() calls made before the first expander runs
seedDraws(allPixels, c) ==
    IF c.extractionMethod = "categorical" THEN 0
    ELSE getDominantDraws(allPixels, c.dominantColorCount)

\* newPalette before harmonization, lines 617-701
rawPalette(allPixels, c, rnd, deadline) ==
    expandFrom(seedsOf(allPixels, c, rnd, deadline), 1, c, rnd, seedDraws(allPixels, c))

\* lines 703-705
harmonized(newPalette, c) ==
    IF c.harmonizeModel # "none" THEN harmonizeColors(newPalette, c.harmonizeModel)
    ELSE newPalette

\* !(l <= 0.1 || l >= 0.95 || s <= 0.1): the test turned around, which a NaN passes;
\* the variant the NaN-free palette is tested against
hslNotOutOfRange(hsl) ==
    ~(\/ hsl[3] # NaN /\ (hsl[3] <= 1000 \/ hsl[3] >= 9500)
      \/ hsl[2] # NaN /\ hsl[2] <= 1000)
\* l > 0.1 && l < 0.95 && s > 0.1, line 709; every comparison with NaN is false
hslInRange(hsl) ==
    /\ hsl[3] # NaN /\ hsl[2] # NaN
    /\ hsl[3] > 1000 /\ hsl[3] < 9500 /\ hsl[2] > 1000

inRange(color) == hslInRange(rgbToHsl(color))

RECURSIVE SelectInRange(_, _)
SelectInRange(colors, n) ==
    IF n > Len(colors) THEN <<>>
    ELSE IF inRange(colors[n]) THEN <<colors[n]>> \o SelectInRange(colors, n + 1)
    ELSE SelectInRange(colors, n + 1)

\* a range filter that collects with unshift instead of push: the variant the
\* order of the refiner is tested against
filteredNewestFirst(newPalette) == Reverse(SelectInRange(newPalette, 1))

\* lines 707-710
filteredPalette(newPalette) == SelectInRange(newPalette, 1)

\* l > 0.1 && l < 0.95, src/App.jsx line 305
hslInRangeJsx(hsl) == hsl[3] # NaN /\ hsl[3] > 1000 /\ hsl[3] < 9500

RECURSIVE SelectInRangeJsx(_, _)
SelectInRangeJsx(colors, n) ==
    IF n > Len(colors) THEN <<>>
    ELSE IF hslInRangeJsx(rgbToHsl(colors[n]))
    THEN <<colors[n]>> \o SelectInRangeJsx(colors, n + 1)
    ELSE SelectInRangeJsx(colors, n + 1)

\* src/App.jsx lines 303-306
filteredPaletteJsx(newPalette) == SelectInRangeJsx(newPalette, 1)
\* Array.from(new Set(colors.map(JSON.stringify))).map(JSON.parse), lines 717-719:
\* a Set keeps the first occurrence of each string, in insertion order
RECURSIVE UniqueFrom(_, _, _)
UniqueFrom(colors, n, seen) ==
    IF n > Len(colors) THEN seen
    ELSE IF \E j \in 1..Len(seen) : seen[j] = colors[n] THEN UniqueFrom(colors, n + 1, seen)
    ELSE UniqueFrom(colors, n + 1, Append(seen, colors[n]))

\* no dedup at all: the variant the no-duplicates property is tested against
keepAll(similarityFiltered) == similarityFiltered

\* lines 717-719
uniqueColors(similarityFiltered) == UniqueFrom(similarityFiltered, 1, <<>>)

\* the refinement passes, lines 707-719
refine(newPalette, threshold) ==
    uniqueColors(filterSimilarColors(filteredPalette(newPalette), threshold))

\* the palette onload stores, line 721
computePalette(allPixels, c, rnd, deadline) ==
    refine(harmonized(rawPalette(allPixels, c, rnd, deadline), c), c.similarityThreshold)


(***************************************************************************)
(* Inputs of the model.                                                    *)
(***************************************************************************)
NoImage == 0                            \* imageSrc === null

\* the pixels the pipeline specification builds its buffers from: a red and a blue
PixelColors == {<<200, 30, 30>>, <<10, 20, 200>>}

MaxPixels == 2                          \* longest pixel buffer of the pipeline specification

SeqsUpTo(S, n) == UNION {[1..m -> S] : m \in 0..n}

\* values of Math.random(): the least, and the greatest below 1
RandomValues == {0, SCALE - 1}
Tapes == {t \in RandomValues \X RandomValues : t[1] # t[2]}
NoTape == <<0>>                         \* the tape of a run that never calls Math.random()

Methods == {"categorical", "complementary"}      \* the options of the extraction select
PaletteTypes == {"variations", "complementary", "triadic", "analogous", "monochromatic"}
Profiles == {"none", "vibrant"}
ColorsPerHueValues == {3, 4, 6}                    \* the slider allows 3..20
Thresholds == {0, 10}                            \* the slider allows 0..30
Counts == {0, 1, 2, 4}                             \* dominantColorCount (slider: 1..16)

Configs(counts) ==
    [extractionMethod : Methods, colorsPerHue : ColorsPerHueValues,
     dominantColorCount : counts, paletteType : PaletteTypes,
     harmonizeModel : Profiles, similarityThreshold : Thresholds]

\* the rounds at which the deadline of line 382 may be found passed (maxIterations: never)
Deadlines == {1, maxIterations}

(***************************************************************************)
(* SpecPipeline: the body of onload, stage by stage.  Init draws a pixel   *)
(* buffer, a configuration (a count of zero included), a tape and a        *)
(* deadline; each action runs one stage of lines 617-721 on the value the  *)
(* stage before it left and records its own.                               *)
(***************************************************************************)
appIdle ==
    /\ imageSrc = NoImage /\ cfg = <<>> /\ palette = <<>> /\ isLoading = FALSE
    /\ loads = {} /\ nStarted = 0 /\ lastStored = 0 /\ nFailed = 0

appVars == <<imageSrc, cfg, palette, isLoading, loads, nStarted, lastStored, nFailed>>

\* inputs that differ only in a field the chosen branch never reads are drawn once
PipelineInputs ==
    {[pixels |-> px, c |-> c, rnd |-> rnd, deadline |-> d] :
        px \in SeqsUpTo(PixelColors, MaxPixels), c \in Configs(Counts),
        rnd \in Tapes \cup {NoTape}, d \in Deadlines}

ReadsCount(c) == c.extractionMethod # "categorical"
ReadsDeadline(pixels, c) ==
    /\ ReadsCount(c) /\ c.dominantColorCount > 0
    /\ Len(pixels) >= c.dominantColorCount
ReadsTape(pixels, c) ==
    \/ ReadsCount(c) /\ c.dominantColorCount > 0
    \/ c.paletteType \notin {"analogous", "monochromatic"} /\ Len(pixels) > 0

PipelineInit ==
    /\ appIdle
    /\ \E in \in PipelineInputs :
        /\ ReadsCount(in.c) \/ in.c.dominantColorCount = 1
        /\ ReadsDeadline(in.pixels, in.c) \/ in.deadline = maxIterations
        /\ ReadsTape(in.pixels, in.c) <=> in.rnd # NoTape
        /\ fn = [pc |-> "seeds", in |-> in, seeds |-> <<>>, raw |-> <<>>,
                 harmonized |-> <<>>, filteredPalette |-> <<>>,
                 similarityFiltered |-> <<>>, palette |-> <<>>]

\* lines 626-634 and 663: the seed colours
PipeSeeds ==
    /\ fn.pc = "seeds"
    /\ fn' = [fn EXCEPT !.pc = "expand",
                        !.seeds = seedsOf(fn.in.pixels, fn.in.c, fn.in.rnd, fn.in.deadline)]
    /\ UNCHANGED appVars

\* lines 636-657 and 665-700: every seed expanded into its group
PipeExpand ==
    /\ fn.pc = "expand"
    /\ fn' = [fn EXCEPT !.pc = "harmonize",
                        !.raw = expandFrom(fn.seeds, 1, fn.in.c, fn.in.rnd,
                                           seedDraws(fn.in.pixels, fn.in.c))]
    /\ UNCHANGED appVars

\* lines 703-705
PipeHarmonize ==
    /\ fn.pc = "harmonize"
    /\ fn' = [fn EXCEPT !.pc = "range", !.harmonized = harmonized(fn.raw, fn.in.c)]
    /\ UNCHANGED appVars

\* lines 707-710
PipeRange ==
    /\ fn.pc = "range"
    /\ fn' = [fn EXCEPT !.pc = "similar", !.filteredPalette = filteredPalette(fn.harmonized)]
    /\ UNCHANGED appVars

\* lines 712-715
PipeSimilar ==
    /\ fn.pc = "similar"
    /\ fn' = [fn EXCEPT !.pc = "unique",
                        !.similarityFiltered =
                            filterSimilarColors(fn.filteredPalette, fn.in.c.similarityThreshold)]
    /\ UNCHANGED appVars

\* lines 717-721
PipeUnique ==
    /\ fn.pc = "unique"
    /\ fn' = [fn EXCEPT !.pc = "done", !.palette = uniqueColors(fn.similarityFiltered)]
    /\ UNCHANGED appVars

PipelineNext ==
    \/ PipeSeeds
    \/ PipeExpand
    \/ PipeHarmonize
    \/ PipeRange
    \/ PipeSimilar
    \/ PipeUnique

SpecPipeline == PipelineInit /\ [][PipelineNext]_vars


(***************************************************************************)
(* Spec: the App component, part_000 lines 546-792.  A state is the state  *)
(* of the component after a render and its effects.  The handlers are the  *)
(* setters of the seven dependencies of the palette effect (lines 729-737);*)
(* a call that changes a dependency re-runs the effect (lines 585-728),    *)
(* which snapshots the dependencies in the closures of a new Image.  The   *)
(* browser later fires that image's onload or onerror, in any order among  *)
(* the pending images.                                                     *)
(***************************************************************************)
\* the pixel buffers (allPixels, lines 612-615) the images a user may drop decode to
AppImages == << <<<<200, 30, 30>>>>, <<<<10, 20, 200>>, <<128, 128, 128>>>> >>

MaxLoads == 2                           \* image loads the effect starts in a behaviour

\* useState defaults, lines 547-556
DefaultCfg ==
    [extractionMethod |-> "categorical", colorsPerHue |-> 10, dominantColorCount |-> 3,
     paletteType |-> "analogous", harmonizeModel |-> "none", similarityThreshold |-> 15]

\* the values the model's user moves each control to (besides the defaults)
AppColorsPerHue == {3, 10}
AppCounts == {2, 3}
AppThresholds == {0, 15}
AppPaletteTypes == {"analogous", "triadic"}

\* the configurations the controls reach
AppConfigs ==
    [extractionMethod : Methods, colorsPerHue : AppColorsPerHue,
     dominantColorCount : AppCounts, paletteType : AppPaletteTypes,
     harmonizeModel : Profiles, similarityThreshold : AppThresholds]

\* the palette onload computes (lines 617-719) for an image, the configuration of its
\* closure, a tape and a deadline; f @@ <<>> is f as a table, built once
onloadPalette ==
    [a \in (1..Len(AppImages)) \X AppConfigs \X (Tapes \cup {NoTape}) \X Deadlines |->
        computePalette(AppImages[a[1]], a[2], a[3], a[4])] @@ <<>>

Init ==
    /\ imageSrc = NoImage
    /\ cfg = DefaultCfg
    /\ palette = <<>>
    /\ isLoading = FALSE
    /\ loads = {}
    /\ nStarted = 0
    /\ lastStored = 0
    /\ nFailed = 0
    /\ fn = [pc |-> "app"]

\* the palette effect, lines 585-728, run with the dependencies src and c
RunEffect(src, c) ==
    IF src = NoImage
    THEN /\ palette' = <<>>
         /\ isLoading' = FALSE
         /\ UNCHANGED <<loads, nStarted>>
    ELSE /\ nStarted < MaxLoads
         /\ isLoading' = TRUE
         /\ nStarted' = nStarted + 1
         /\ loads' = loads \cup {[id |-> nStarted + 1, src |-> src, c |-> c]}
         /\ UNCHANGED palette

\* handleFile's reader.onload, lines 739-745: setImageSrc(e.target.result)
HandleFile(src) ==
    /\ src # imageSrc
    /\ imageSrc' = src
    /\ RunEffect(src, cfg)
    /\ UNCHANGED <<cfg, lastStored, nFailed, fn>>

\* a setter of one extraction parameter called with a new value
SetParam(field, value) ==
    /\ value # cfg[field]
    /\ cfg' = [cfg EXCEPT ![field] = value]
    /\ RunEffect(imageSrc, cfg')
    /\ UNCHANGED <<imageSrc, lastStored, nFailed, fn>>

SetColorsPerHue(n) == SetParam("colorsPerHue", n)
SetHarmonizeModel(m) == SetParam("harmonizeModel", m)
SetExtractionMethod(m) == SetParam("extractionMethod", m)
SetDominantColorCount(n) == SetParam("dominantColorCount", n)
SetSimilarityThreshold(t) == SetParam("similarityThreshold", t)
SetPaletteType(t) == SetParam("paletteType", t)

\* img.onload, lines 595-723, of a pending image
OnLoad(req) ==
    /\ req \in loads
    /\ \E rnd \in Tapes \cup {NoTape}, deadline \in Deadlines :
        /\ ReadsTape(AppImages[req.src], req.c) <=> rnd # NoTape
        /\ ReadsDeadline(AppImages[req.src], req.c) \/ deadline = maxIterations
        /\ palette' = onloadPalette[<<req.src, req.c, rnd, deadline>>]
    /\ isLoading' = FALSE
    /\ loads' = loads \ {req}
    /\ lastStored' = req.id
    /\ UNCHANGED <<imageSrc, cfg, nStarted, nFailed, fn>>

\* an onerror that leaves the flag alone: the variant the clearing is tested against
OnErrorKeepsLoading(req) ==
    /\ req \in loads
    /\ loads' = loads \ {req}
    /\ nFailed' = nFailed + 1
    /\ UNCHANGED <<imageSrc, cfg, palette, isLoading, nStarted, lastStored, fn>>
\* img.onerror, lines 724-727, of a pending image
OnError(req) ==
    /\ req \in loads
    /\ isLoading' = FALSE
    /\ loads' = loads \ {req}
    /\ nFailed' = nFailed + 1
    /\ UNCHANGED <<imageSrc, cfg, palette, nStarted, lastStored, fn>>

Next ==
    \/ \E src \in 1..Len(AppImages) : HandleFile(src)
    \/ \E n \in AppColorsPerHue : SetColorsPerHue(n)
    \/ \E m \in Profiles : SetHarmonizeModel(m)
    \/ \E m \in Methods : SetExtractionMethod(m)
    \/ \E n \in AppCounts : SetDominantColorCount(n)
    \/ \E t \in AppThresholds : SetSimilarityThreshold(t)
    \/ \E t \in AppPaletteTypes : SetPaletteType(t)
    \/ \E req \in loads : OnLoad(req)
    \/ \E req \in loads : OnError(req)

Spec == Init /\ [][Next]_vars


(***************************************************************************)
(* SpecFilter: filterSimilarColors as a function.  Init draws a palette    *)
(* and a threshold; FilterRun applies the function to the palette and      *)
(* FilterAgain applies it to the result.  The colours are three reds whose *)
(* distances are about 4.5, 4.6 and 9.0, and a blue far from all of them.  *)
(***************************************************************************)
FilterColors == {<<200, 30, 30>>, <<215, 45, 40>>, <<230, 60, 50>>, <<10, 20, 200>>}
FilterThresholds == {0, 5, 15}          \* the slider allows 0..30
MaxPalette == 3                         \* longest palette of the filter specification

FilterInit ==
    /\ appIdle
    /\ \E colors \in SeqsUpTo(FilterColors, MaxPalette), threshold \in FilterThresholds :
        fn = [pc |-> "start", colors |-> colors, threshold |-> threshold,
              filtered |-> <<>>, refiltered |-> <<>>]

FilterRun ==
    /\ fn.pc = "start"
    /\ fn' = [fn EXCEPT !.pc = "filtered",
                        !.filtered = filterSimilarColors(fn.colors, fn.threshold)]
    /\ UNCHANGED appVars

FilterAgain ==
    /\ fn.pc = "filtered"
    /\ fn' = [fn EXCEPT !.pc = "refiltered",
                        !.refiltered = filterSimilarColors(fn.filtered, fn.threshold)]
    /\ UNCHANGED appVars

FilterNext ==
    \/ FilterRun
    \/ FilterAgain

SpecFilter == FilterInit /\ [][FilterNext]_vars


(***************************************************************************)
(* SpecExpand: the five expanders as functions.  Init draws a seed colour, *)
(* a count N >= 1 and a tape; one action per expander applies it.          *)
(***************************************************************************)
ExpandSeeds == {<<200, 30, 30>>, <<10, 20, 200>>, <<128, 128, 128>>}
MaxCount == 7                           \* largest N of the expander specification

ExpandInit ==
    /\ appIdle
    /\ \E baseColor \in ExpandSeeds, n \in 1..MaxCount, paletteType \in PaletteTypes,
          rnd \in Tapes \cup {NoTape} :
        /\ paletteType \in {"analogous", "monochromatic"} <=> rnd = NoTape
        /\ fn = [pc |-> "start", paletteType |-> paletteType, baseColor |-> baseColor,
                 n |-> n, rnd |-> rnd, out |-> <<>>]

\* an expander called with the drawn arguments returns out
Returns(paletteType, out) ==
    /\ fn.pc = "start"
    /\ fn.paletteType = paletteType
    /\ fn' = [fn EXCEPT !.pc = "done", !.out = out]
    /\ UNCHANGED appVars

RunVariations ==
    Returns("variations", generateColorVariations(fn.baseColor, fn.n, fn.rnd, 0))
RunComplementary ==
    Returns("complementary", generateComplementaryPalette(fn.baseColor, fn.n, fn.rnd, 0))
RunTriadic ==
    Returns("triadic", generateTriadicPalette(fn.baseColor, fn.n, fn.rnd, 0))
RunAnalogous ==
    Returns("analogous", generateAnalogousPalette(fn.baseColor, fn.n))
RunMonochromatic ==
    Returns("monochromatic", generateMonochromaticPalette(fn.baseColor, fn.n))

ExpandNext ==
    \/ RunVariations
    \/ RunComplementary
    \/ RunTriadic
    \/ RunAnalogous
    \/ RunMonochromatic

SpecExpand == ExpandInit /\ [][ExpandNext]_vars


(***************************************************************************)
(* SpecKMeans: kMeansClustering, part_000 lines 335-423, step by step.     *)
(* Init draws the arguments and a tape.  The caps drawn are the program's  *)
(* own 10 and 1000 and a small cap and sample size, with which the cap of  *)
(* the loop and the sampling of lines 338-344 happen on short buffers.     *)
(* The clock is the environment's: the check of line 382 may find the      *)
(* five seconds passed at the head of any round.                           *)
(***************************************************************************)
KMPixelColors == {<<200, 30, 30>>, <<201, 30, 30>>, <<215, 45, 40>>, <<10, 20, 200>>}
MaxKMPixels == 3                        \* longest pixel buffer of the k-means specification
KValues == 0..3
IterationCaps == {1, maxIterations}
SampleSizes == {2, sampleSize}

KMInit ==
    /\ appIdle
    /\ \E pixels \in SeqsUpTo(KMPixelColors, MaxKMPixels), k \in KValues,
          cap \in IterationCaps, size \in SampleSizes, rnd \in Tapes :
        fn = [pc |-> "start", pixels |-> pixels, k |-> k, maxIterations |-> cap,
              sampleSize |-> size, rnd |-> rnd, sampledPixels |-> <<>>, p1 |-> 0,
              centroids |-> <<>>, i |-> 0, iter |-> 0, exit |-> "none", result |-> <<>>]

\* lines 336-348: the early return, or the sample and the first centroid
KMStart ==
    /\ fn.pc = "start"
    /\ IF Len(fn.pixels) = 0 \/ fn.k = 0
       THEN fn' = [fn EXCEPT !.pc = "returned", !.exit = "empty", !.result = <<>>]
       ELSE fn' = [fn EXCEPT
                !.pc = "seeding",
                !.sampledPixels = kmSample(fn.pixels, fn.sampleSize, fn.rnd, 0),
                !.p1 = kmSampleDraws(fn.pixels, fn.sampleSize),
                !.centroids =
                    <<kmSample(fn.pixels, fn.sampleSize, fn.rnd, 0)[
                        randomIndex(Rand(fn.rnd, kmSampleDraws(fn.pixels, fn.sampleSize)),
                                    Len(kmSample(fn.pixels, fn.sampleSize, fn.rnd, 0)))]>>,
                !.i = 1]
    /\ UNCHANGED appVars

\* one round of the seeding loop, lines 350-376
KMSeed ==
    /\ fn.pc = "seeding"
    /\ fn.i < fn.k
    /\ fn' = [fn EXCEPT
            !.centroids = kmSeedRound(fn.sampledPixels, fn.centroids, Rand(fn.rnd, fn.p1 + fn.i)),
            !.i = fn.i + 1]
    /\ UNCHANGED appVars

\* the seeding loop ends, lines 350 and 378-381
KMSeeded ==
    /\ fn.pc = "seeding"
    /\ fn.i >= fn.k
    /\ fn' = [fn EXCEPT !.pc = "iterating", !.iter = 0]
    /\ UNCHANGED appVars

\* lines 382-387: the deadline has passed at the head of a round
KMTimeout ==
    /\ fn.pc = "iterating"
    /\ fn.iter < fn.maxIterations
    /\ fn' = [fn EXCEPT !.pc = "returned", !.exit = "deadline", !.result = fn.centroids]
    /\ UNCHANGED appVars

\* a round without the break of line 419: the variant the early stop is tested against
KMRoundNoBreak ==
    /\ fn.pc = "iterating"
    /\ fn.iter < fn.maxIterations
    /\ fn' = [fn EXCEPT !.centroids = kmRound(fn.sampledPixels, fn.centroids, fn.k),
                        !.iter = fn.iter + 1]
    /\ UNCHANGED appVars
\* lines 389-419: one round; an unchanged round breaks out of the loop and returns
KMRound ==
    /\ fn.pc = "iterating"
    /\ fn.iter < fn.maxIterations
    /\ IF kmRound(fn.sampledPixels, fn.centroids, fn.k) = fn.centroids
       THEN fn' = [fn EXCEPT !.pc = "returned", !.exit = "converged",
                             !.result = fn.centroids]
       ELSE fn' = [fn EXCEPT !.centroids = kmRound(fn.sampledPixels, fn.centroids, fn.k),
                             !.iter = fn.iter + 1]
    /\ UNCHANGED appVars

\* lines 381 and 422: iter reached maxIterations
KMCap ==
    /\ fn.pc = "iterating"
    /\ fn.iter >= fn.maxIterations
    /\ fn' = [fn EXCEPT !.pc = "returned", !.exit = "cap", !.result = fn.centroids]
    /\ UNCHANGED appVars

KMNext ==
    \/ KMStart
    \/ KMSeed
    \/ KMSeeded
    \/ KMTimeout
    \/ KMRound
    \/ KMCap

SpecKMeans == KMInit /\ [][KMNext]_vars


(***************************************************************************)
(* SpecCategorical: the categorical branch of onload, lines 617-661, as a  *)
(* function of the pixel buffer.  Init draws a buffer over eight colours:  *)
(* one per category, a second red from the upper red range, and a grey     *)
(* (hue 0).  CatRun runs the branch; CatRunShuffled runs it again on a     *)
(* reordering of the same buffer.                                          *)
(***************************************************************************)
CatPixelColors ==
    {<<200, 30, 30>>, <<200, 30, 100>>, <<128, 128, 128>>, <<200, 120, 30>>,
     <<180, 200, 30>>, <<30, 200, 30>>, <<10, 20, 200>>, <<150, 30, 200>>}
MaxCatPixels == 3                       \* longest pixel buffer of the categorical specification

\* the configuration of the categorical runs: the defaults with the smallest group size
CatConfig == [DefaultCfg EXCEPT !.colorsPerHue = 3]

CatInit ==
    /\ appIdle
    /\ \E pixels \in SeqsUpTo(CatPixelColors, MaxCatPixels) :
        fn = [pc |-> "start", pixels |-> pixels, seeds |-> <<>>, newPalette |-> <<>>,
              shuffled |-> <<>>, shuffledSeeds |-> <<>>]

\* lines 626-659 on fn.pixels
CatRun ==
    /\ fn.pc = "start"
    /\ fn' = [fn EXCEPT !.pc = "done",
                        !.seeds = categoricalSeeds(fn.pixels),
                        !.newPalette = expandFrom(categoricalSeeds(fn.pixels), 1, CatConfig,
                                                  NoTape, 0)]
    /\ UNCHANGED appVars

\* lines 626-634 on the same pixels in another order
CatRunShuffled ==
    /\ fn.pc = "done"
    /\ \E order \in Permutations(1..Len(fn.pixels)) :
        fn' = [fn EXCEPT !.pc = "again",
                         !.shuffled = [n \in 1..Len(fn.pixels) |-> fn.pixels[order[n]]],
                         !.shuffledSeeds =
                             categoricalSeeds([n \in 1..Len(fn.pixels) |-> fn.pixels[order[n]]])]
    /\ UNCHANGED appVars

CatNext ==
    \/ CatRun
    \/ CatRunShuffled

SpecCategorical == CatInit /\ [][CatNext]_vars


(***************************************************************************)
(* SpecRuns: two invocations of the pipeline (onload, lines 595-723) on    *)
(* the same image with the same configuration.  Each invocation makes its  *)
(* own Math.random() draws (lines 341, 347, 365, 447, 448) and reads its   *)
(* own clock (lines 378, 382), so each action draws a tape and a deadline. *)
(***************************************************************************)
RunsInit ==
    /\ appIdle
    /\ \E src \in 1..Len(AppImages), c \in AppConfigs :
        fn = [pc |-> "start", src |-> src, c |-> c, first |-> <<>>, second |-> <<>>]

\* the palette an invocation stores (line 721), for the draws and the clock it meets
InvocationStores(stored) ==
    \E rnd \in Tapes \cup {NoTape}, deadline \in Deadlines :
        /\ ReadsTape(AppImages[fn.src], fn.c) <=> rnd # NoTape
        /\ ReadsDeadline(AppImages[fn.src], fn.c) \/ deadline = maxIterations
        /\ stored = onloadPalette[<<fn.src, fn.c, rnd, deadline>>]

RunFirst ==
    /\ fn.pc = "start"
    /\ \E stored \in {onloadPalette[a] : a \in DOMAIN onloadPalette} :
        /\ InvocationStores(stored)
        /\ fn' = [fn EXCEPT !.pc = "first", !.first = stored]
    /\ UNCHANGED appVars

RunSecond ==
    /\ fn.pc = "first"
    /\ \E stored \in {onloadPalette[a] : a \in DOMAIN onloadPalette} :
        /\ InvocationStores(stored)
        /\ fn' = [fn EXCEPT !.pc = "second", !.second = stored]
    /\ UNCHANGED appVars

RunsNext ==
    \/ RunFirst
    \/ RunSecond

SpecRuns == RunsInit /\ [][RunsNext]_vars


(***************************************************************************)
(* SpecHarmonize: harmonizeColors of both versions as a function.  Init    *)
(* draws a palette (a NaN colour, which a group of size one yields, among  *)
(* its colours) and a profile name: a defined one, or one neither version  *)
(* defines.                                                                *)
(***************************************************************************)
HarmonizeColorSet ==
    {<<200, 30, 30>>, <<10, 20, 200>>, <<128, 128, 128>>, <<255, 0, 0>>, <<0, 0, 0>>,
     <<NaN, NaN, NaN>>}
MaxHarmonized == 2                      \* longest palette of the harmonize specification

\* the options of the harmonize select, lines 1014-1025
ProfileNames == {"none", "70s", "80s", "vibrant", "neon", "pastel", "earthy", "jewel"}
UnknownNames == {"sepia", "", "constructor", "__proto__"}

HarmonizeInit ==
    /\ appIdle
    /\ \E colors \in SeqsUpTo(HarmonizeColorSet, MaxHarmonized),
          model \in ProfileNames \cup UnknownNames :
        fn = [pc |-> "start", colors |-> colors, model |-> model, handed |-> <<>>,
              out |-> <<>>]

\* the s and l each colour of the palette reaches line 252 with
HandedTo(colors, params) ==
    [i \in 1..Len(colors) |-> harmonizedSL(rgbToHsl(colors[i]), params)]

RunHarmonize ==
    /\ fn.pc = "start"
    /\ fn' = [fn EXCEPT !.pc = "part_000",
                        !.handed = HandedTo(fn.colors, paramsOf(fn.model)),
                        !.out = harmonizeColors(fn.colors, fn.model)]
    /\ UNCHANGED appVars

RunHarmonizeJsx ==
    /\ fn.pc = "start"
    /\ fn' = [fn EXCEPT !.pc = "App.jsx",
                        !.handed = HandedTo(fn.colors, paramsOfJsx(fn.model)),
                        !.out = harmonizeColorsJsx(fn.colors, fn.model)]
    /\ UNCHANGED appVars

HarmonizeNext ==
    \/ RunHarmonize
    \/ RunHarmonizeJsx

SpecHarmonize == HarmonizeInit /\ [][HarmonizeNext]_vars


(***************************************************************************)
(* SpecRange: the range filter of both versions as a function.  The        *)
(* colours: a red inside the range; a grey (S = 0) and a dull red          *)
(* (S = 0.077) of middle lightness; a dark and a light colour; and         *)
(* [51, 0, 0], whose lightness is exactly 0.1.                             *)
(***************************************************************************)
RangeColors ==
    {<<200, 30, 30>>, <<128, 128, 128>>, <<140, 120, 120>>, <<20, 10, 10>>,
     <<250, 245, 245>>, <<51, 0, 0>>}
MaxRanged == 3                          \* longest palette of the range specification

RangeInit ==
    /\ appIdle
    /\ \E colors \in SeqsUpTo(RangeColors, MaxRanged) :
        fn = [pc |-> "start", colors |-> colors, out |-> <<>>]

RunRange ==
    /\ fn.pc = "start"
    /\ fn' = [fn EXCEPT !.pc = "part_000", !.out = filteredPalette(fn.colors)]
    /\ UNCHANGED appVars

RunRangeJsx ==
    /\ fn.pc = "start"
    /\ fn' = [fn EXCEPT !.pc = "App.jsx", !.out = filteredPaletteJsx(fn.colors)]
    /\ UNCHANGED appVars

RangeNext ==
    \/ RunRange
    \/ RunRangeJsx

SpecRange == RangeInit /\ [][RangeNext]_vars


(***************************************************************************)
(* SpecExport: handleExport, part_000 lines 767-792 (src/App.jsx lines     *)
(* 421-447 are the same code).  A string is the sequence of its            *)
(* characters.  Init draws the palette on screen; HandleExport is a click  *)
(* on the export button.                                                   *)
(***************************************************************************)
\* the digits Number.prototype.toString(16) writes
hexDigits == <<"0", "1", "2", "3", "4", "5", "6", "7", "8", "9", "a", "b", "c", "d", "e", "f">>

\* c.toString(16) for an integer c >= 0: no leading zero, lower case
RECURSIVE toString16(_)
toString16(c) ==
    IF c < 16 THEN <<hexDigits[c + 1]>>
    ELSE toString16(c \div 16) \o <<hexDigits[(c % 16) + 1]>>

\* s.slice(-2): the last two characters, or all of a shorter string
sliceLast2(s) == IF Len(s) <= 2 THEN s ELSE SubSeq(s, Len(s) - 1, Len(s))

\* String.prototype.toUpperCase on one character
upperChar(ch) ==
    CASE ch = "a" -> "A" [] ch = "b" -> "B" [] ch = "c" -> "C"
      [] ch = "d" -> "D" [] ch = "e" -> "E" [] ch = "f" -> "F"
      [] OTHER -> ch

toUpperCase(s) == [i \in 1..Len(s) |-> upperChar(s[i])]

\* `0${c.toString(16)}`.slice(-2).toUpperCase(), line 774
toHex(c) == toUpperCase(sliceLast2(<<"0">> \o toString16(c)))

\* red first: the variant the channel order is tested against
formatColorRgb(r, g, b) == <<"F", "F">> \o toHex(r) \o toHex(g) \o toHex(b)

\* `FF${toHex(b)}${toHex(g)}${toHex(r)}`, line 775
formatColor(r, g, b) == <<"F", "F">> \o toHex(b) \o toHex(g) \o toHex(r)

\* palette.map(([r, g, b]) => formatColor(r, g, b)), line 778
flatColors(colors) == [i \in 1..Len(colors) |-> formatColor(colors[i][1], colors[i][2], colors[i][3])]

ExportColors == {<<255, 0, 0>>, <<0, 10, 171>>, <<16, 15, 9>>, <<200, 30, 30>>}
MaxExported == 3                        \* longest palette of the export specification

ExportInit ==
    /\ imageSrc = 1 /\ cfg = DefaultCfg /\ isLoading = FALSE
    /\ loads = {} /\ nStarted = 1 /\ lastStored = 1 /\ nFailed = 0
    /\ palette \in SeqsUpTo(ExportColors, MaxExported)
    /\ fn = [pc |-> "shown", colors |-> <<>>]

\* lines 767-792: nothing is written for an empty palette (lines 768-771); otherwise
\* the file holds {colors: flatColors}
HandleExport ==
    /\ fn.pc = "shown"
    /\ IF Len(palette) = 0
       THEN fn' = [fn EXCEPT !.pc = "nothing"]
       ELSE fn' = [fn EXCEPT !.pc = "exported", !.colors = flatColors(palette)]
    /\ UNCHANGED appVars

ExportNext == HandleExport

SpecExport == ExportInit /\ [][ExportNext]_vars


(***************************************************************************)
(* SpecThresholds: filterSimilarColors on one palette at two positions of  *)
(* the similarity slider (lines 1045-1050: 0..30), the lower first.  The   *)
(* colours are four reds whose distances are about 14.8, 18.2, 17.6        *)
(* (from the first), 10.2, 8.7 (from the second) and 18.6.                 *)
(***************************************************************************)
ThresholdColors == {<<198, 85, 77>>, <<208, 95, 59>>, <<218, 81, 54>>, <<193, 100, 56>>}
SliderPositions == {0, 12, 16, 30}
MaxCompared == 4                        \* longest palette of the threshold specification

ThresholdsInit ==
    /\ appIdle
    /\ \E colors \in SeqsUpTo(ThresholdColors, MaxCompared),
          t1 \in SliderPositions, t2 \in SliderPositions :
        /\ t1 <= t2
        /\ fn = [pc |-> "start", colors |-> colors, t1 |-> t1, t2 |-> t2,
                 low |-> <<>>, high |-> <<>>]

FilterLow ==
    /\ fn.pc = "start"
    /\ fn' = [fn EXCEPT !.pc = "low", !.low = filterSimilarColors(fn.colors, fn.t1)]
    /\ UNCHANGED appVars

FilterHigh ==
    /\ fn.pc = "low"
    /\ fn' = [fn EXCEPT !.pc = "high", !.high = filterSimilarColors(fn.colors, fn.t2)]
    /\ UNCHANGED appVars

ThresholdsNext ==
    \/ FilterLow
    \/ FilterHigh

SpecThresholds == ThresholdsInit /\ [][ThresholdsNext]_vars


(***************************************************************************)
(* SpecRoundTrip: rgbToHsl and hslToRgb, lines 35-86, one after the other  *)
(* on an RGB triple whose channels are drawn from the ends, the middle and *)
(* some values between.                                                    *)
(***************************************************************************)
RoundTripChannels == {0, 1, 51, 127, 128, 200, 254, 255}

RoundTripInit ==
    /\ appIdle
    /\ \E c \in RoundTripChannels \X RoundTripChannels \X RoundTripChannels :
        fn = [pc |-> "start", c |-> c, hsl |-> <<>>, back |-> <<>>]

RunRgbToHsl ==
    /\ fn.pc = "start"
    /\ fn' = [fn EXCEPT !.pc = "hsl", !.hsl = rgbToHsl(fn.c)]
    /\ UNCHANGED appVars

RunHslToRgb ==
    /\ fn.pc = "hsl"
    /\ fn' = [fn EXCEPT !.pc = "rgb", !.back = hslToRgb(fn.hsl[1], fn.hsl[2], fn.hsl[3])]
    /\ UNCHANGED appVars

RoundTripNext ==
    \/ RunRgbToHsl
    \/ RunHslToRgb

SpecRoundTrip == RoundTripInit /\ [][RoundTripNext]_vars


(***************************************************************************)
(* SpecDeltaE: deltaE, lines 289-295, called on a pair of colours and then *)
(* on the same pair the other way round.  The colours are the 27 triples   *)
(* with channels 0, 128 and 255.                                           *)
(***************************************************************************)
DeltaEChannels == {0, 128, 255}

DeltaEInit ==
    /\ appIdle
    /\ \E color1 \in DeltaEChannels \X DeltaEChannels \X DeltaEChannels,
          color2 \in DeltaEChannels \X DeltaEChannels \X DeltaEChannels :
        fn = [pc |-> "start", color1 |-> color1, color2 |-> color2,
              forth |-> 0, back |-> 0]

\* deltaE(color1, color2): the arguments are spread into rgbToLab and not written to
RunDeltaE ==
    /\ fn.pc = "start"
    /\ fn' = [fn EXCEPT !.pc = "forth", !.forth = deltaE(fn.color1, fn.color2)]
    /\ UNCHANGED appVars

\* deltaE(color2, color1)
RunDeltaESwapped ==
    /\ fn.pc = "forth"
    /\ fn' = [fn EXCEPT !.pc = "back", !.back = deltaE(fn.color2, fn.color1)]
    /\ UNCHANGED appVars

DeltaENext ==
    \/ RunDeltaE
    \/ RunDeltaESwapped

SpecDeltaE == DeltaEInit /\ [][DeltaENext]_vars


(***************************************************************************)
(* SpecKMeansRuns: SpecKMeans run to completion.  kMeansClustering is      *)
(* synchronous code on the one JavaScript thread: once called, it takes    *)
(* its next step until it returns, which is weak fairness of its steps.    *)
(***************************************************************************)
SpecKMeansRuns == KMInit /\ [][KMNext]_vars /\ WF_vars(KMNext)


(***************************************************************************)
(* SpecHues: the hues the expanders compute by offset arithmetic.  Init    *)
(* draws a seed colour, a count N >= 2, a step i < N and a value of        *)
(* Math.random(); one action per computation records the hue it yields:    *)
(* the jittered hue of line 446, the swept hue of line 503 and the rotated *)
(* hues of lines 460, 480 and 481.                                         *)
(***************************************************************************)
HueSeeds == {<<200, 30, 30>>, <<255, 10, 0>>, <<255, 0, 4>>, <<10, 20, 200>>,
             <<30, 200, 30>>, <<128, 128, 128>>}
HueCounts == {2, 3, 6}
HueRandomValues == {0, 2500, SCALE \div 2, 7500, SCALE - 1}

HuesInit ==
    /\ appIdle
    /\ \E baseColor \in HueSeeds, n \in HueCounts, r \in HueRandomValues :
        \E i \in 0..(n - 1) :
            fn = [pc |-> "start", baseColor |-> baseColor, h |-> rgbToHsl(baseColor)[1],
                  n |-> n, i |-> i, r |-> r, hue |-> 0]

\* the computation at pc = "start" yields hue
Yields(by, hue) ==
    /\ fn.pc = "start"
    /\ fn' = [fn EXCEPT !.pc = by, !.hue = hue]
    /\ UNCHANGED appVars

JitterHue == Yields("variations", jitteredHue(fn.h, fn.r))
SweepHue == Yields("analogous", sweptHue(fn.h, stepT(fn.i, fn.n)))
RotateHalf == Yields("complementary", rotatedHue(fn.h, SCALE \div 2))
RotateThird == Yields("triadic1", rotatedHue(fn.h, SCALE \div 3))
RotateTwoThirds == Yields("triadic2", rotatedHue(fn.h, (2 * SCALE) \div 3))

HuesNext ==
    \/ JitterHue
    \/ SweepHue
    \/ RotateHalf
    \/ RotateThird
    \/ RotateTwoThirds

SpecHues == HuesInit /\ [][HuesNext]_vars


(***************************************************************************)
(* SpecSeeds: the seeds of the categorical branch in both versions, as a   *)
(* function of the pixel buffer.  Init draws a buffer over three reds, two *)
(* blues, two greys; SeedsRun takes the seeds as part_000 does, lines      *)
(* 626-634, SeedsRunJsx as src/App.jsx does, lines 277-283.                *)
(***************************************************************************)
SeedPixelColors ==
    {<<200, 30, 30>>, <<255, 0, 0>>, <<100, 10, 40>>, <<10, 20, 200>>, <<40, 80, 220>>,
     <<128, 128, 128>>, <<40, 40, 40>>}
MaxSeedPixels == 3                      \* longest pixel buffer of the seed specification

SeedsInit ==
    /\ appIdle
    /\ \E pixels \in SeqsUpTo(SeedPixelColors, MaxSeedPixels) :
        fn = [pc |-> "start", pixels |-> pixels, seeds |-> <<>>]

SeedsRun ==
    /\ fn.pc = "start"
    /\ fn' = [fn EXCEPT !.pc = "part_000", !.seeds = categoricalSeeds(fn.pixels)]
    /\ UNCHANGED appVars

SeedsRunJsx ==
    /\ fn.pc = "start"
    /\ fn' = [fn EXCEPT !.pc = "App.jsx", !.seeds = categoricalSeedsJsx(fn.pixels)]
    /\ UNCHANGED appVars

SeedsNext ==
    \/ SeedsRun
    \/ SeedsRunJsx

SpecSeeds == SeedsInit /\ [][SeedsNext]_vars


(***************************************************************************)
(* SpecBuckets: the catPixels filter of lines 626-631 run for all six      *)
(* categories on one buffer.  Init draws a buffer over colours whose hues  *)
(* lie on the category boundaries (1/12, 1/6, 1/4, 1/2, 3/4, 11/12), at 0, *)
(* just below 1 and inside the ranges, and over greys, black and white.    *)
(***************************************************************************)
BucketPixelColors ==
    {<<255, 0, 0>>, <<255, 128, 1>>, <<255, 255, 0>>, <<128, 255, 1>>, <<0, 255, 0>>,
     <<0, 255, 255>>, <<0, 0, 255>>, <<128, 1, 255>>, <<255, 1, 128>>, <<255, 0, 1>>,
     <<128, 128, 128>>, <<0, 0, 0>>, <<255, 255, 255>>}
MaxBucketPixels == 2                    \* longest pixel buffer of the bucket specification

BucketsInit ==
    /\ appIdle
    /\ \E pixels \in SeqsUpTo(BucketPixelColors, MaxBucketPixels) :
        fn = [pc |-> "start", pixels |-> pixels, hues |-> <<>>, buckets |-> <<>>]

\* the filter of lines 628-631 for each entry of categoryOrder
RunBuckets ==
    /\ fn.pc = "start"
    /\ fn' = [fn EXCEPT !.pc = "done",
                        !.hues = [n \in 1..Len(fn.pixels) |-> rgbToHsl(fn.pixels[n])[1]],
                        !.buckets = [ci \in 1..Len(categoryOrder) |->
                                        catPixels(fn.pixels, categoryOrder[ci])]]
    /\ UNCHANGED appVars

BucketsNext == RunBuckets

SpecBuckets == BucketsInit /\ [][BucketsNext]_vars


(***************************************************************************)
(* SpecLoads: the App component with the browser's part of an image load:  *)
(* for an image whose src was set (line 728) the browser fires onload or   *)
(* onerror in the end, whatever the user does meanwhile.                   *)
(***************************************************************************)
\* the browser fires the event of the load with this id
Fires(id) == \E req \in loads : req.id = id /\ (OnLoad(req) \/ OnError(req))

SpecLoads == Init /\ [][Next]_vars /\ \A id \in 1..MaxLoads : WF_vars(Fires(id))


(***************************************************************************)
(* Properties.                                                             *)
(***************************************************************************)
\* the elements of xs at the indices in S, in order
RECURSIVE Restrict(_, _, _)
Restrict(xs, S, n) ==
    IF n > Len(xs) THEN <<>>
    ELSE (IF n \in S THEN <<xs[n]>> ELSE <<>>) \o Restrict(xs, S, n + 1)

\* a is b with some elements removed: the elements of a occur in b, in a's order
RECURSIVE IsSubsequence(_, _)
IsSubsequence(a, b) ==
    IF a = <<>> THEN TRUE
    ELSE IF b = <<>> THEN FALSE
    ELSE IF Head(a) = Head(b) THEN IsSubsequence(Tail(a), Tail(b))
    ELSE IsSubsequence(a, Tail(b))

\* integer channels in 0..255
FiniteColor(c) == \A ch \in 1..3 : c[ch] \in 0..255

\* C1: after every started load has fired its onload (none failed, none is pending), the
\* palette on screen is the one the most recent request computed: the load that stored
\* last is the load started last.
LatestWins ==
    (nStarted > 0 /\ loads = {} /\ nFailed = 0) => lastStored = nStarted

\* two loads started, the first fired its onload last: the palette on screen is none
\* that the current image and parameters produce
StalePaletteStored ==
    /\ nStarted = 2 /\ loads = {} /\ nFailed = 0
    /\ lastStored = 1
    /\ \A rnd \in Tapes \cup {NoTape}, d \in Deadlines :
            palette # onloadPalette[<<imageSrc, cfg, rnd, d>>]

\* the rule of the specification: index n is kept when it is the first, or when the
\* colour is at distance >= t from every colour kept before it
RECURSIVE KeptByRule(_, _, _)
KeptNext(P, t, n, before) ==
    IF n = 1 \/ \A j \in before : deltaE(P[n], P[j]) >= t * LABSCALE
    THEN before \cup {n} ELSE before
KeptByRule(P, t, n) == IF n = 0 THEN {} ELSE KeptNext(P, t, n, KeptByRule(P, t, n - 1))

FilterRule(P, t, out, kept) ==
    /\ out = Restrict(P, kept, 1)
    /\ P # <<>> => 1 \in kept
    /\ \A i \in 1..Len(out) : \A j \in 1..Len(out) :
            i < j => deltaE(out[i], out[j]) >= t * LABSCALE
    /\ \A n \in (1..Len(P)) \ kept :
            \E j \in kept : j < n /\ deltaE(P[n], P[j]) < t * LABSCALE

\* C2: filterSimilarColors keeps the first colour, and a later colour exactly when its
\* deltaE to every colour already kept is >= t; so every two colours of the output are at
\* deltaE >= t, and every dropped colour is at deltaE < t from a colour kept before it.
FilterKeepsTheDistant ==
    fn.pc \in {"filtered", "refiltered"} =>
        FilterRule(fn.colors, fn.threshold, fn.filtered,
                   KeptByRule(fn.colors, fn.threshold, Len(fn.colors)))

\* a chain of three reds at threshold 5: the middle one is dropped, the third is kept
FilterDropsTheMiddle ==
    /\ fn.pc = "filtered"
    /\ fn.threshold = 5
    /\ fn.colors = << <<200, 30, 30>>, <<215, 45, 40>>, <<230, 60, 50>> >>
    /\ fn.filtered = << <<200, 30, 30>>, <<230, 60, 50>> >>

\* C3: filtering a filtered palette again at the same threshold returns it unchanged,
\* element for element and in the same order.
FilterIdempotent ==
    fn.pc = "refiltered" => fn.refiltered = fn.filtered

\* a palette the first pass shortened to two or more colours, filtered again
RefilteredShortened ==
    /\ fn.pc = "refiltered"
    /\ Len(fn.filtered) < Len(fn.colors)
    /\ Len(fn.filtered) >= 2

\* the indices of the first occurrences in xs
FirstOccurrences(xs) == {i \in 1..Len(xs) : \A j \in 1..(i - 1) : xs[j] # xs[i]}

\* C4: the palette the pipeline stores has no two equal RGB triples, at every threshold
\* (0 included, where the similarity filter removes nothing); of equal triples the first
\* occurrence is the one kept.
StoredPaletteHasNoDuplicates ==
    fn.pc = "done" =>
        /\ \A i \in 1..Len(fn.palette) : \A j \in 1..Len(fn.palette) :
                i # j => fn.palette[i] # fn.palette[j]
        /\ fn.palette = Restrict(fn.similarityFiltered, FirstOccurrences(fn.similarityFiltered), 1)

\* threshold 0, equal triples reached the dedup and were collapsed
DuplicatesCollapsedAtZero ==
    /\ fn.pc = "done"
    /\ fn.in.c.similarityThreshold = 0
    /\ Len(fn.palette) >= 2
    /\ Len(fn.palette) < Len(fn.similarityFiltered)

\* C5: the refiner only removes: the stored palette is an order-preserving subsequence
\* of the palette handed to the range filter, so it is never longer.
RefinerOnlyRemoves ==
    fn.pc = "done" =>
        /\ IsSubsequence(fn.palette, fn.harmonized)
        /\ Len(fn.palette) <= Len(fn.harmonized)

\* the refiner removed some colours and kept two or more
RefinerRemovedSome ==
    /\ fn.pc = "done"
    /\ Len(fn.palette) >= 2
    /\ Len(fn.filteredPalette) < Len(fn.harmonized)
    /\ Len(fn.similarityFiltered) < Len(fn.filteredPalette)

\* the sizes of the groups generateColorVariations is asked for by an expander
GroupSizes(paletteType, n) ==
    IF paletteType = "complementary" THEN {CeilDiv(n, 2), FloorDiv(n, 2)}
    ELSE IF paletteType = "triadic"
    THEN {CeilDiv(n, 3), FloorDiv(n - CeilDiv(n, 3), 2),
          n - CeilDiv(n, 3) - FloorDiv(n - CeilDiv(n, 3), 2)}
    ELSE {n}

\* C6: an expander that generates a group of size 1 (N = 1, or a share of size 1 of
\* complementary or triadic) returns only colours with integer channels in 0..255.
SizeOneGroupsAreFinite ==
    (fn.pc = "done" /\ 1 \in GroupSizes(fn.paletteType, fn.n)) =>
        \A i \in 1..Len(fn.out) : FiniteColor(fn.out[i])

\* generateColorVariations asked for one colour returns [NaN, NaN, NaN]
VariationOfOneIsNaN ==
    /\ fn.pc = "done"
    /\ fn.paletteType = "variations"
    /\ fn.n = 1
    /\ fn.out = << <<NaN, NaN, NaN>> >>

\* C7: each expander returns exactly N colours; the complementary halves and the
\* triadic shares sum to N.
ExpandersReturnN ==
    fn.pc = "done" =>
        /\ Len(fn.out) = fn.n
        /\ CeilDiv(fn.n, 2) + FloorDiv(fn.n, 2) = fn.n
        /\ CeilDiv(fn.n, 3) + FloorDiv(fn.n - CeilDiv(fn.n, 3), 2)
            + (fn.n - CeilDiv(fn.n, 3) - FloorDiv(fn.n - CeilDiv(fn.n, 3), 2)) = fn.n

\* triadic with N = 7: odd and not divisible by 3
TriadicOfSeven ==
    /\ fn.pc = "done"
    /\ fn.paletteType = "triadic"
    /\ fn.n = 7
    /\ Len(fn.out) = 7

\* C8: an empty pixel buffer (either method) or, in clustered mode, a count of zero
\* gives an empty seed set and an empty stored palette.
EmptyInputGivesEmptyPalette ==
    (\/ Len(fn.in.pixels) = 0
     \/ fn.in.c.extractionMethod # "categorical" /\ fn.in.c.dominantColorCount = 0) =>
        /\ fn.pc # "seeds" => fn.seeds = <<>>
        /\ fn.pc = "done" => fn.palette = <<>>

\* an empty buffer in clustered mode: the seeds are black pixels, and the stored
\* palette is not empty
EmptyBufferGivesPalette ==
    /\ fn.pc = "done"
    /\ fn.in.pixels = <<>>
    /\ fn.seeds = << <<0, 0, 0>> >>
    /\ fn.palette # <<>>

\* C9: with a non-empty buffer of fewer pixels than the count, getDominantColors returns
\* exactly count seeds, each a pixel of the buffer.
SmallBufferIsPadded ==
    (/\ fn.pc # "seeds"
     /\ fn.in.c.extractionMethod # "categorical"
     /\ Len(fn.in.pixels) > 0
     /\ Len(fn.in.pixels) < fn.in.c.dominantColorCount) =>
        /\ Len(fn.seeds) = fn.in.c.dominantColorCount
        /\ \A i \in 1..Len(fn.seeds) : \E j \in 1..Len(fn.in.pixels) : fn.seeds[i] = fn.in.pixels[j]

\* one pixel, two seeds asked: the pixel twice
OnePixelTwoSeeds ==
    /\ fn.pc = "expand"
    /\ fn.in.c.extractionMethod # "categorical"
    /\ fn.in.c.dominantColorCount = 2
    /\ fn.in.pixels = << <<200, 30, 30>> >>
    /\ fn.seeds = << <<200, 30, 30>>, <<200, 30, 30>> >>

\* C10: for a non-empty buffer and k >= 1, kMeansClustering returns exactly k centroids
\* on every exit (convergence, the cap on rounds, the deadline); every seeding round
\* appends a centroid, also when the total roulette distance is 0.
KMeansReturnsK ==
    (Len(fn.pixels) > 0 /\ fn.k >= 1) =>
        /\ fn.pc = "seeding" => Len(fn.centroids) = fn.i /\ fn.i <= fn.k
        /\ fn.pc = "iterating" => Len(fn.centroids) = fn.k
        /\ fn.pc = "returned" =>
                /\ fn.exit \in {"converged", "cap", "deadline"}
                /\ Len(fn.result) = fn.k

\* three equal pixels and k = 3: both seeding rounds saw a total distance of 0
KMeansSeededFromEqualPixels ==
    /\ fn.pc = "returned"
    /\ fn.k = 3
    /\ fn.pixels = << <<200, 30, 30>>, <<200, 30, 30>>, <<200, 30, 30>> >>
    /\ fn.result = fn.pixels

\* the categories, as indices of categoryOrder, that some pixel of the buffer falls in
PresentCategories(pixels) ==
    {ci \in 1..Len(categoryOrder) :
        \E n \in 1..Len(pixels) : inCategory(pixels[n], categoryOrder[ci])}

\* the i-th least number of S
NthLeast(S, i) == CHOOSE x \in S : Cardinality({y \in S : y < x}) = i - 1

\* the pixels of the buffer that fall in category ci, in buffer order
PixelsOf(pixels, ci) ==
    Restrict(pixels, {n \in 1..Len(pixels) : inCategory(pixels[n], categoryOrder[ci])}, 1)

GroupsFollow(pixels, present, seeds, newPalette, n) ==
    /\ Len(seeds) = Cardinality(present)
    /\ \A i \in 1..Len(seeds) :
        seeds[i] = getMedianColor(PixelsOf(pixels, NthLeast(present, i)))
    /\ Len(newPalette) = n * Len(seeds)
    /\ \A i \in 1..Len(seeds) :
        SubSeq(newPalette, n * (i - 1) + 1, n * i) = generateAnalogousPalette(seeds[i], n)

\* C11: the categorical branch emits one group per category that has a pixel and none
\* for a category without one, the i-th group being grown from the median of the i-th
\* such category in the order red, orange, yellow, green, blue, purple; a reordering of
\* the buffer gives the same seeds.
CategoricalGroupsInOrder ==
    /\ fn.pc # "start" =>
        GroupsFollow(fn.pixels, PresentCategories(fn.pixels), fn.seeds, fn.newPalette,
                     CatConfig.colorsPerHue)
    /\ fn.pc = "again" => fn.shuffledSeeds = fn.seeds

BlueBeforeRedReordered ==
    /\ fn.pc = "again"
    /\ Len(fn.pixels) = 3
    /\ fn.shuffled # fn.pixels
    /\ inCategory(fn.pixels[1], "blue")
    /\ inCategory(fn.pixels[3], "red")
    /\ Len(fn.seeds) = 2
    /\ Len(fn.newPalette) = 6

\* C12: two invocations of the pipeline on the same pixel buffer with the same
\* configuration store the same palette.
SameInputsSamePalette == fn.pc = "second" => fn.second = fn.first

TwoRunsTwoPalettes ==
    /\ fn.pc = "second"
    /\ fn.second # fn.first
    /\ fn.c.extractionMethod = "categorical"

\* a colour taken to HSL and back with only the final clamps of lines 250-251
Unadjusted(color, hsl) == hslToRgb(hsl[1], Clamp01(hsl[2]), Clamp01(hsl[3]))

\* C13: harmonizeColors with a profile name the version does not define returns what the
\* "none" profile returns: every colour converted to HSL and back with no multiply, no
\* shift and no range clamp.
UnknownProfileIsNone ==
    /\ (fn.pc = "part_000" /\ fn.model \notin ProfileNames) =>
        /\ fn.out = harmonizeColors(fn.colors, "none")
        /\ Len(fn.out) = Len(fn.colors)
        /\ \A i \in 1..Len(fn.out) :
            fn.out[i] = Unadjusted(fn.colors[i], rgbToHsl(fn.colors[i]))
    /\ (fn.pc = "App.jsx" /\ modelKey(fn.model) \notin modelsJsx) =>
        /\ fn.out = harmonizeColors(fn.colors, "none")
        /\ Len(fn.out) = Len(fn.colors)
        /\ \A i \in 1..Len(fn.out) :
            fn.out[i] = Unadjusted(fn.colors[i], rgbToHsl(fn.colors[i]))

SepiaLeavesRedAlone ==
    /\ fn.pc = "part_000"
    /\ fn.model = "sepia"
    /\ fn.colors = <<<<200, 30, 30>>, <<NaN, NaN, NaN>>>>
    /\ fn.out # harmonizeColors(fn.colors, "70s")
    /\ fn.out[1] = <<200, 30, 30>>

\* lightness <= 0.1 or >= 0.95, or saturation <= 0.1
OutOfRange(hsl) == hsl[3] <= 1000 \/ hsl[3] >= 9500 \/ hsl[2] <= 1000

\* out is colors without the colours out of range
RangeRule(colors, out) ==
    /\ out = Restrict(colors, {n \in 1..Len(colors) : ~OutOfRange(rgbToHsl(colors[n]))}, 1)
    /\ \A i \in 1..Len(out) :
        /\ rgbToHsl(out[i])[3] > 1000 /\ rgbToHsl(out[i])[3] < 9500
        /\ rgbToHsl(out[i])[2] > 1000

\* the rule in the current version alone
RangeRuleInPart000 == fn.pc = "part_000" => RangeRule(fn.colors, fn.out)

\* C14: in both versions the range filter drops every colour whose lightness is <= 0.1
\* or >= 0.95 or whose saturation is <= 0.1 and keeps every other colour, in order.
RangeRuleInBothVersions == fn.pc \in {"part_000", "App.jsx"} => RangeRule(fn.colors, fn.out)

GreyKeptByJsx ==
    /\ fn.pc = "App.jsx"
    /\ fn.colors = <<<<128, 128, 128>>, <<200, 30, 30>>, <<51, 0, 0>>>>
    /\ fn.out = <<<<128, 128, 128>>, <<200, 30, 30>>>>

UpperHexDigits ==
    <<"0", "1", "2", "3", "4", "5", "6", "7", "8", "9", "A", "B", "C", "D", "E", "F">>

\* the two upper-case hexadecimal digits of a channel
TwoDigits(c) == <<UpperHexDigits[(c \div 16) + 1], UpperHexDigits[(c % 16) + 1]>>

\* what an export has written: one entry per palette colour, in palette order
ExportedEntries ==
    /\ fn.pc = "exported" =>
        /\ Len(fn.colors) = Len(palette)
        /\ \A i \in 1..Len(palette) :
            /\ Len(fn.colors[i]) = 8
            /\ fn.colors[i] = <<"F", "F">> \o TwoDigits(palette[i][3])
                              \o TwoDigits(palette[i][2]) \o TwoDigits(palette[i][1])
    /\ fn.pc = "nothing" => Len(palette) = 0

\* C15: the exported list has one entry per palette colour, in palette order; the entry
\* of [r, g, b] is the 8 characters "FF", the two digits of b, of g, and of r, upper
\* case and zero-padded; no step of the export changes the palette.
ExportIsFFBGR == []ExportedEntries /\ [][palette' = palette]_vars

RedExportsAsFF0000FF ==
    /\ fn.pc = "exported"
    /\ palette = <<<<255, 0, 0>>, <<0, 10, 171>>>>
    /\ fn.colors = << <<"F", "F", "0", "0", "0", "0", "F", "F">>,
                      <<"F", "F", "A", "B", "0", "A", "0", "0">> >>

\* C16: of two thresholds t1 <= t2, the higher never leaves more colours of the same
\* palette than the lower.
HigherThresholdNeverKeepsMore == fn.pc = "high" => Len(fn.high) <= Len(fn.low)

SixteenKeepsMoreThanTwelve ==
    /\ fn.pc = "high"
    /\ fn.colors = <<<<198, 85, 77>>, <<208, 95, 59>>, <<218, 81, 54>>, <<193, 100, 56>>>>
    /\ fn.t1 = 12 /\ fn.t2 = 16
    /\ fn.low = <<<<198, 85, 77>>, <<208, 95, 59>>>>
    /\ fn.high = <<<<198, 85, 77>>, <<218, 81, 54>>, <<193, 100, 56>>>>

AllFinite(colors) == \A i \in 1..Len(colors) : FiniteColor(colors[i])

\* C17: from the range filter on, every colour of the palette (and so every colour the
\* pipeline stores) has three integer channels in 0..255: no NaN and nothing out of
\* range, whatever the size of the groups.
StoredColoursAreBytes ==
    /\ fn.pc \in {"similar", "unique", "done"} => AllFinite(fn.filteredPalette)
    /\ fn.pc \in {"unique", "done"} => AllFinite(fn.similarityFiltered)
    /\ fn.pc = "done" => AllFinite(fn.palette)

NaNGroupMemberNotStored ==
    /\ fn.pc = "done"
    /\ fn.in.c.extractionMethod = "complementary"
    /\ fn.in.c.colorsPerHue = 6 /\ fn.in.c.dominantColorCount = 2
    /\ fn.in.c.paletteType = "complementary"
    /\ \E i \in 1..Len(fn.harmonized) : IsNaNColor(fn.harmonized[i])
    /\ Len(fn.palette) > 0

Near(x, y) == x - y \in {0 - 1, 0, 1}

\* C18: hslToRgb(rgbToHsl(c)) is within 1 of c in each channel, for every RGB triple c
\* with integer channels in 0..255; the HSL in between has h in [0, 1) and s, l in [0, 1].
HslRoundTripWithinOne ==
    /\ fn.pc \in {"hsl", "rgb"} =>
        /\ fn.hsl[1] >= 0 /\ fn.hsl[1] < SCALE
        /\ fn.hsl[2] >= 0 /\ fn.hsl[2] <= SCALE
        /\ fn.hsl[3] >= 0 /\ fn.hsl[3] <= SCALE
    /\ fn.pc = "rgb" => \A ch \in 1..3 : Near(fn.back[ch], fn.c[ch])

DarkBlueishComesBack ==
    /\ fn.pc = "rgb"
    /\ fn.c = <<51, 1, 127>>
    /\ fn.hsl[3] < SCALE \div 2
    /\ fn.hsl[2] > 0
    /\ \A ch \in 1..3 : Near(fn.back[ch], fn.c[ch])

\* what the calls made so far have returned
DeltaEResults ==
    /\ (fn.pc \in {"forth", "back"} /\ fn.color1 = fn.color2) => fn.forth = 0
    /\ fn.pc \in {"forth", "back"} => fn.forth # NaN /\ fn.forth >= 0
    /\ fn.pc = "back" => fn.back = fn.forth

\* C19: deltaE(c, c) = 0 for every colour c, deltaE(a, b) = deltaE(b, a) for every pair,
\* and a call leaves both arguments as they were.
DeltaEIsSymmetricAndZeroOnEqual ==
    /\ []DeltaEResults
    /\ [][fn'.color1 = fn.color1 /\ fn'.color2 = fn.color2]_vars

GreyToYellowBothWays ==
    /\ fn.pc = "back"
    /\ fn.color1 = <<128, 128, 128>>
    /\ fn.color2 = <<255, 255, 0>>
    /\ fn.forth > 0
    /\ fn.back = fn.forth

\* some centroid was replaced by one more than deltaE 1 away
SomeCentroidMoved(old, new) ==
    \E i \in 1..Len(old) : deltaE(new[i], old[i]) > 1 * LABSCALE

\* a round after which the loop goes on has replaced a centroid and counts as one round
RoundGoesOnOnlyIfMoved ==
    (fn.pc = "iterating" /\ fn'.pc = "iterating") =>
        /\ fn'.iter = fn.iter + 1
        /\ SomeCentroidMoved(fn.centroids, fn'.centroids)

\* the ways out of the loop: the deadline, a round without a move, the cap
LoopExits ==
    /\ fn.iter <= fn.maxIterations /\ fn.maxIterations <= maxIterations
    /\ (fn.pc = "returned" /\ fn.exit # "empty") =>
        /\ fn.exit \in {"deadline", "converged", "cap"}
        /\ fn.exit = "cap" => fn.iter = fn.maxIterations
        /\ fn.result = fn.centroids

\* C20: the refinement loop of kMeansClustering returns in every run; it makes at most
\* maxIterations = 10 rounds, and goes on after a round only if that round replaced a
\* centroid (by a median more than deltaE 1 away) and the deadline has not fired.
KMeansLoopTerminates ==
    /\ []LoopExits
    /\ [][RoundGoesOnOnlyIfMoved]_vars
    /\ <>(fn.pc = "returned")

ConvergedAfterOneMove ==
    /\ fn.pc = "returned"
    /\ fn.exit = "converged"
    /\ fn.iter = 1
    /\ fn.maxIterations = maxIterations

(***************************************************************************)
(* C21: for every profile that defines clamp ranges and every colour (a    *)
(* triple of bytes), the saturation and lightness harmonizeColors hands to *)
(* hslToRgb lie inside the profile's s_range and l_range and inside [0,1]: *)
(* the range clamp comes after the multiply-and-shift.  An achromatic      *)
(* colour (S = 0) under "pastel" is handed saturation 0.2.                 *)
(***************************************************************************)
InsideRanges(sl, params) ==
    /\ params.s_range[1] <= sl[1] /\ sl[1] <= params.s_range[2]
    /\ params.l_range[1] <= sl[2] /\ sl[2] <= params.l_range[2]
    /\ 0 <= sl[1] /\ sl[1] <= SCALE
    /\ 0 <= sl[2] /\ sl[2] <= SCALE

HandedInsideProfileRanges ==
    (fn.pc = "part_000" /\ paramsOf(fn.model).ranged) =>
        \A i \in 1..Len(fn.colors) :
            FiniteColor(fn.colors[i]) =>
                /\ InsideRanges(fn.handed[i], paramsOf(fn.model))
                /\ (fn.model = "pastel" /\ rgbToHsl(fn.colors[i])[2] = 0)
                       => fn.handed[i][1] = 2000

\* grey under "pastel" reached hslToRgb with saturation 0.2
GreyPastelHandedFifth ==
    /\ fn.pc = "part_000"
    /\ fn.model = "pastel"
    /\ fn.colors = << <<128, 128, 128>> >>
    /\ rgbToHsl(fn.colors[1])[2] = 0
    /\ fn.handed[1][1] = 2000
    /\ fn.handed[1][2] > 7000 /\ fn.handed[1][2] < 9500

(***************************************************************************)
(* C22: every hue the expanders compute by offset arithmetic (jittered,    *)
(* swept, rotated) lies in [0,1) when it is used, for every seed hue in    *)
(* [0,1), the seed hues within 0.04 of 0 included.                         *)
(***************************************************************************)
ComputedHuesInUnitInterval ==
    fn.pc # "start" => (fn.hue # NaN /\ 0 <= fn.hue /\ fn.hue < SCALE)

\* the jitter of a seed of hue 0 with Math.random() = 0 is the hue -0.025
JitteredHueBelowZero ==
    /\ fn.pc = "variations"
    /\ fn.h = 0
    /\ fn.r = 0
    /\ fn.hue = 0 - 250

\* the rotated hues, whose offsets are positive, do lie in [0,1)
RotatedHuesInUnitInterval ==
    fn.pc \in {"complementary", "triadic1", "triadic2"} => (0 <= fn.hue /\ fn.hue < SCALE)

\* v is the element at index floor(n/2) of the n values sorted ascending
IsUpperMedian(values, v) ==
    /\ Cardinality({i \in 1..Len(values) : values[i] < v}) <= Len(values) \div 2
    /\ Cardinality({i \in 1..Len(values) : values[i] <= v}) > Len(values) \div 2
    /\ \E i \in 1..Len(values) : values[i] = v

\* one seed per category with pixels, each channel the upper median of the category's
SeedsAreMedians(pixels, present, seeds) ==
    /\ Len(seeds) = Cardinality(present)
    /\ \A i \in 1..Len(seeds), ch \in 1..3 :
        IsUpperMedian(Channel(PixelsOf(pixels, NthLeast(present, i)), ch), seeds[i][ch])

\* the seeds of part_000 are the per-channel upper medians
SeedsAreMediansInPart000 ==
    fn.pc = "part_000" => SeedsAreMedians(fn.pixels, PresentCategories(fn.pixels), fn.seeds)

(***************************************************************************)
(* C23: in both versions the seed of a non-empty hue category is the       *)
(* per-channel median of the category's pixels: each channel is the        *)
(* element at index floor(n/2) of that channel's values sorted ascending,  *)
(* so each seed channel occurs in that channel of a pixel of the category. *)
(***************************************************************************)
SeedsAreMediansInBothVersions ==
    fn.pc # "start" => SeedsAreMedians(fn.pixels, PresentCategories(fn.pixels), fn.seeds)

\* src/App.jsx seeds two reds with their mean, a colour neither pixel has a channel of
MeanSeedByJsx ==
    /\ fn.pc = "App.jsx"
    /\ fn.pixels = << <<200, 30, 30>>, <<255, 0, 0>> >>
    /\ fn.seeds = << <<228, 15, 15>> >>

\* the index of the centroid nearest to the pixel, the first one among equals
NearestCentroid(pixel, centroids) ==
    CHOOSE i \in 1..Len(centroids) :
        /\ \A j \in 1..Len(centroids) : deltaE(pixel, centroids[j]) >= deltaE(pixel, centroids[i])
        /\ \A j \in 1..(i - 1) : deltaE(pixel, centroids[j]) > deltaE(pixel, centroids[i])

\* the sampled pixels nearest to centroid i, in sample order
ClusterAt(sampledPixels, centroids, i) ==
    Restrict(sampledPixels,
             {n \in 1..Len(sampledPixels) : NearestCentroid(sampledPixels[n], centroids) = i}, 1)

\* a round leaves the centroid of an empty cluster alone and puts at index i only the
\* old centroid i or the median of cluster i
RoundKeepsIndices ==
    (fn.pc = "iterating" /\ fn.iter < fn.maxIterations /\ fn'.exit # "deadline") =>
        /\ Len(fn'.centroids) = Len(fn.centroids)
        /\ \A i \in 1..Len(fn.centroids) :
            IF ClusterAt(fn.sampledPixels, fn.centroids, i) = <<>>
            THEN fn'.centroids[i] = fn.centroids[i]
            ELSE fn'.centroids[i] \in
                    {fn.centroids[i],
                     getMedianColor(ClusterAt(fn.sampledPixels, fn.centroids, i))}

\* a seeding round appends a centroid after the ones it found
SeedingAppends ==
    (fn.pc = "seeding" /\ fn'.pc = "seeding") =>
        /\ Len(fn'.centroids) = Len(fn.centroids) + 1
        /\ SubSeq(fn'.centroids, 1, Len(fn.centroids)) = fn.centroids

\* what returns is the centroid sequence as it stands
ReturnsCentroidsInPlace ==
    (fn.pc \in {"seeding", "iterating"} /\ fn'.pc = "returned") => fn'.result = fn.centroids

(***************************************************************************)
(* C24: in every k-means round a cluster that received no pixel leaves its *)
(* centroid unchanged (no reseeding), and a centroid keeps its index for   *)
(* the whole run: seeding appends, a round writes index i only from        *)
(* cluster i, and the sequence returned is the one in seeding order.       *)
(***************************************************************************)
EmptyClusterKeepsCentroid ==
    [][RoundKeepsIndices /\ SeedingAppends /\ ReturnsCentroidsInPlace]_vars

\* seeds <<A, B, A>>: the third cluster stayed empty (its pixels go to the first, equal
\* centroid); the round moved the first centroid and left the third where it was
ThirdCentroidKeptWhileFirstMoved ==
    /\ fn.pc = "iterating"
    /\ fn.iter = 1
    /\ fn.k = 3
    /\ fn.pixels = << <<200, 30, 30>>, <<10, 20, 200>>, <<215, 45, 40>> >>
    /\ fn.centroids = << <<200, 30, 200>>, <<215, 45, 40>>, <<200, 30, 30>> >>
    /\ ClusterAt(fn.sampledPixels, << <<200, 30, 30>>, <<215, 45, 40>>, <<200, 30, 30>> >>, 3)
           = <<>>

\* the elements of a sequence
Range(xs) == {xs[i] : i \in 1..Len(xs)}

\* the categories whose ranges hold the hue h
CategoriesOf(h) ==
    {ci \in 1..Len(categoryOrder) :
        \E pair \in Range(categories[categoryOrder[ci]]) : pair[1] <= h /\ h < pair[2]}

\* all the ranges of the six categories
AllRanges == UNION {Range(categories[categoryOrder[ci]]) : ci \in 1..Len(categoryOrder)}

\* the ranges follow one another from 0 to 1: each starts where another ends
RangesChain ==
    /\ Cardinality(AllRanges) = 7
    /\ \A pair \in AllRanges : pair[1] < pair[2]
    /\ {pair[1] : pair \in AllRanges} \cup {SCALE} = {pair[2] : pair \in AllRanges} \cup {0}
    /\ Cardinality({pair[1] : pair \in AllRanges}) = 7

RECURSIVE TotalLen(_)
TotalLen(lists) == IF lists = <<>> THEN 0 ELSE Len(Head(lists)) + TotalLen(Tail(lists))

(***************************************************************************)
(* C25: the six hue categories partition the hue circle: for every pixel   *)
(* the hue rgbToHsl returns lies in [0,1) and satisfies low <= h < high    *)
(* for the ranges of exactly one category, so every pixel of the buffer is *)
(* in exactly one bucket: none is dropped, none counted twice.             *)
(***************************************************************************)
CategoriesPartitionHues ==
    fn.pc = "done" =>
        /\ RangesChain
        /\ \A n \in 1..Len(fn.pixels) :
            /\ 0 <= fn.hues[n] /\ fn.hues[n] < SCALE
            /\ Cardinality(CategoriesOf(fn.hues[n])) = 1
        /\ \A ci \in 1..Len(categoryOrder) :
            fn.buckets[ci] =
                Restrict(fn.pixels, {n \in 1..Len(fn.pixels) : ci \in CategoriesOf(fn.hues[n])}, 1)
        /\ TotalLen(fn.buckets) = Len(fn.pixels)

\* cyan has hue 1/2, the boundary of green and blue, and is counted as blue only; pure
\* red has hue 0 and is counted as red
CyanIsBlueOnly ==
    /\ fn.pc = "done"
    /\ fn.pixels = << <<0, 255, 255>>, <<255, 0, 0>> >>
    /\ fn.hues = <<5000, 0>>
    /\ fn.buckets = << << <<255, 0, 0>> >>, <<>>, <<>>, <<>>, << <<0, 255, 255>> >>, <<>> >>

\* the event of a started load has not fired yet
Pending(id) == \E req \in loads : req.id = id

\* a step in which the event of a load fires
EventFires == \E req \in loads : req \notin loads'

MediansWithinTolerance(sampledPixels, centroids) ==
    \A i \in 1..Len(centroids) :
        ClusterAt(sampledPixels, centroids, i) # <<>> =>
            deltaE(getMedianColor(ClusterAt(sampledPixels, centroids, i)), centroids[i])
                <= 1 * LABSCALE

(***************************************************************************)
(* C27: when kMeansClustering returns because a round replaced no centroid *)
(* (not at the cap of rounds, not at the deadline), then under the         *)
(* assignment of the sampled pixels to the nearest returned centroids the  *)
(* per-channel median of every non-empty cluster is within deltaE <= 1 of  *)
(* that cluster's centroid.                                                *)
(***************************************************************************)
ConvergedMediansNearCentroids ==
    (fn.pc = "returned" /\ fn.exit = "converged") =>
        MediansWithinTolerance(fn.sampledPixels, fn.result)

\* a run converged on a centroid that is not its cluster's median: the median is the
\* neighbour less than deltaE 1 away
ConvergedBesideMedian ==
    /\ fn.pc = "returned"
    /\ fn.exit = "converged"
    /\ \E i \in 1..Len(fn.result) :
        /\ ClusterAt(fn.sampledPixels, fn.result, i) # <<>>
        /\ getMedianColor(ClusterAt(fn.sampledPixels, fn.result, i)) # fn.result[i]

Achromatic(p) == p[1] = p[2] /\ p[2] = p[3]

\* the pixels the red bucket is to hold: the achromatic ones and those of a red hue
RedOrGrey(pixels) ==
    Restrict(pixels,
             {n \in 1..Len(pixels) :
                \/ Achromatic(pixels[n])
                \/ rgbToHsl(pixels[n])[1] < 833
                \/ rgbToHsl(pixels[n])[1] >= 9167}, 1)

(***************************************************************************)
(* C28: an achromatic pixel (R = G = B) has hue 0 and is placed in the red *)
(* bucket, never skipped: a buffer of grey pixels only yields exactly one  *)
(* seed, the median of the whole buffer, in the place of red; and when a   *)
(* buffer holds a grey pixel the first seed is the per-channel median of   *)
(* its grey and red pixels together.                                       *)
(***************************************************************************)
GreyPixelsCountAsRed ==
    fn.pc = "part_000" =>
        /\ \A n \in 1..Len(fn.pixels) :
            Achromatic(fn.pixels[n]) =>
                /\ rgbToHsl(fn.pixels[n])[1] = 0
                /\ CategoriesOf(rgbToHsl(fn.pixels[n])[1]) = {1}
                /\ categoryOrder[1] = "red"
        /\ (fn.pixels # <<>> /\ \A n \in 1..Len(fn.pixels) : Achromatic(fn.pixels[n])) =>
                /\ Len(fn.seeds) = 1
                /\ \A ch \in 1..3 : IsUpperMedian(Channel(fn.pixels, ch), fn.seeds[1][ch])
        /\ (\E n \in 1..Len(fn.pixels) : Achromatic(fn.pixels[n])) =>
                /\ Len(fn.seeds) >= 1
                /\ \A ch \in 1..3 :
                    IsUpperMedian(Channel(RedOrGrey(fn.pixels), ch), fn.seeds[1][ch])

\* two greys and a red: the one seed takes its channels from the greys
GreysShareTheRedMedian ==
    /\ fn.pc = "part_000"
    /\ fn.pixels = << <<128, 128, 128>>, <<200, 30, 30>>, <<40, 40, 40>> >>
    /\ fn.seeds = << <<128, 40, 40>> >>

\* no triple occurs twice
NoRepeats(colors) ==
    \A i \in 1..Len(colors), j \in 1..Len(colors) : colors[i] = colors[j] => i = j

(***************************************************************************)
(* C29: with similarity threshold 0 filterSimilarColors removes nothing:   *)
(* it returns every colour of the palette in order, exact duplicates       *)
(* included; with a threshold > 0 an exact duplicate of a colour already   *)
(* kept is always dropped, so the result has no repeated triple.           *)
(***************************************************************************)
ThresholdZeroRemovesNothing ==
    fn.pc # "start" =>
        /\ fn.threshold = 0 => fn.filtered = fn.colors
        /\ fn.threshold > 0 =>
            /\ NoRepeats(fn.filtered)
            /\ \A i \in 1..Len(fn.colors) :
                (\E j \in 1..(i - 1) : fn.colors[j] = fn.colors[i]) =>
                    Len(fn.filtered) < Len(fn.colors)

\* at threshold 0 a palette with a repeated red comes back whole
ZeroKeepsTheRepeatedRed ==
    /\ fn.pc = "filtered"
    /\ fn.threshold = 0
    /\ fn.colors = << <<200, 30, 30>>, <<10, 20, 200>>, <<200, 30, 30>> >>
    /\ fn.filtered = fn.colors

\* every channel of every colour is that channel of some pixel, hence a byte
ChannelsFrom(colors, pixels) ==
    \A i \in 1..Len(colors), ch \in 1..3 :
        /\ \E n \in 1..Len(pixels) : pixels[n][ch] = colors[i][ch]
        /\ colors[i][ch] \in 0..255

(***************************************************************************)
(* C30: throughout seeding and every refinement round of kMeansClustering  *)
(* each centroid is built from pixel data only: every channel of every     *)
(* centroid, and so of every returned seed, occurs as that same channel of *)
(* some pixel of the input buffer and is an integer in 0..255.             *)
(***************************************************************************)
CentroidChannelsComeFromPixels ==
    /\ ChannelsFrom(fn.sampledPixels, fn.pixels)
    /\ ChannelsFrom(fn.centroids, fn.pixels)
    /\ ChannelsFrom(fn.result, fn.pixels)

\* a seed returned after a round that is no pixel of the buffer: red and green of one
\* pixel, blue of another
ReturnedSeedMixesPixels ==
    /\ fn.pc = "returned"
    /\ fn.iter >= 1
    /\ \E i \in 1..Len(fn.result) :
        /\ fn.result[i] = <<200, 30, 200>>
        /\ \A n \in 1..Len(fn.pixels) : fn.pixels[n] # fn.result[i]

====
